---- MODULE Spec2Model ----
(***************************************************************************)
(* A model of main.py: the AdvancedStorage class (a JSON-file variant and  *)
(* a MongoDB variant behind one set of methods), the /addfilter and        *)
(* /delfilter handlers, the keyword matcher and the broadcast handler.     *)
(*                                                                         *)
(* Text is a sequence of one-character strings.  A Python dict that the    *)
(* code iterates (local_filters, local_users) is a sequence of             *)
(* [k, v] entries in insertion order.  A MongoDB collection that the code  *)
(* iterates with find({}) (filters, users) is modelled the same way, keyed *)
(* by the field the code selects on, in natural (insertion) order; the     *)
(* groups and the stats document are only looked up, and are functions.    *)
(***************************************************************************)
EXTENDS Integers, Sequences, FiniteSets, TLC

VARIABLES
    STORAGE,    \* the AdvancedStorage instance, its files and its collections
    mirror,     \* a second instance (the MongoDB variant) run in lockstep
    now,        \* time.time()
    last,       \* the last storage call or handler step: name, arguments, result
    bc,         \* the local variables of one broadcast_handler invocation
    km,         \* the local variables of one keyword_match_handler invocation
    tasks       \* concurrently running increment_stat invocations

vars == <<STORAGE, mirror, now, last, bc, km, tasks>>

----------------------------------------------------------------------------
(* Bounds of the model *)

MaxTime == 2
MaxSearch == 2
MaxPayloads == 3
MaxKwLen == 2
MaxTextLen == 3
NumKeywords == 6
MaxUsers == 3
MaxOthers == 1
MaxTasks == 3
MaxOps == 4
NumPayloads == 12
MaxPaused == 1
MaxHandlers == 3

\* the caps of keyword_match_handler
MaxMatches == 5
MaxFiles == 10

----------------------------------------------------------------------------
(* Python dicts, in insertion order *)

EmptyDict == <<>>

DictHas(d, k) == \E i \in DOMAIN d : d[i].k = k

DictIndex(d, k) == CHOOSE i \in DOMAIN d : d[i].k = k

DictGet(d, k) == d[DictIndex(d, k)].v

DictSet(d, k, v) ==
    IF DictHas(d, k)
    THEN [d EXCEPT ![DictIndex(d, k)] = [k |-> k, v |-> v]]
    ELSE Append(d, [k |-> k, v |-> v])

DictDel(d, k) == SelectSeq(d, LAMBDA e : e.k # k)

DictKeys(d) == [i \in DOMAIN d |-> d[i].k]

SeqToSet(s) == {s[i] : i \in DOMAIN s}

\* a function without the key k (delete_one on a collection)
NoDoc == [x \in {} |-> 0]

----------------------------------------------------------------------------
(* str(user_id) and int(user_id_str) *)

Digits == <<"1", "2", "3", "4", "5", "6", "7", "8", "9">>

str(n) == Digits[n]

int(s) == CHOOSE n \in DOMAIN Digits : Digits[n] = s

----------------------------------------------------------------------------
(* AdvancedStorage *)

FreshStats(t) == [total_searches |-> 0, total_broadcasts |-> 0, bot_started |-> t]

NoFiles == [exists |-> FALSE, filters |-> EmptyDict, users |-> EmptyDict,
            groups |-> NoDoc, stats |-> NoDoc]

NoCollections == [filters |-> EmptyDict, users |-> EmptyDict, groups |-> NoDoc,
                  stats |-> NoDoc]

\* _load_json: every file that exists replaces the attribute; stats.json updates local_stats
_load_json(S) ==
    IF S.files.exists
    THEN [S EXCEPT !.local_filters = S.files.filters,
                   !.local_users = S.files.users,
                   !.local_groups = S.files.groups,
                   !.local_stats = S.files.stats @@ S.local_stats]
    ELSE S

\* _save_json that leaves stats.json as it is
SaveJsonWithoutStats(S) ==
    [S EXCEPT !.files = [exists |-> TRUE, filters |-> S.local_filters,
                         users |-> S.local_users, groups |-> S.local_groups,
                         stats |-> IF S.files.exists THEN S.files.stats
                                   ELSE FreshStats(0)]]

\* _save_json: the four files are rewritten from the whole in-memory state
_save_json(S) ==
    [S EXCEPT !.files = [exists |-> TRUE, filters |-> S.local_filters,
                         users |-> S.local_users, groups |-> S.local_groups,
                         stats |-> S.local_stats]]

\* __init__: use_mongo is set when MONGO_URI is set and the try block raises
\* nothing. AsyncIOMotorClient(...) opens no connection, and
\* db_client.admin.command('ping') is not awaited: it returns a future, so a
\* server that does not answer raises nothing here. raises stands for what the
\* block can raise: a URI that cannot be parsed or resolved.
NewStorage(mongo_uri, raises, files, db, t) ==
    LET S0 == [use_mongo |-> mongo_uri /\ ~raises,
               local_filters |-> EmptyDict, local_users |-> EmptyDict,
               local_groups |-> NoDoc, local_stats |-> FreshStats(t),
               files |-> files, db |-> db]
    IN  IF S0.use_mongo THEN S0 ELSE _load_json(S0)

\* get_user_info: the stored record, or None (here: NoDoc, which is falsy as None is)
get_user_info(S, user_id) ==
    LET user_id_str == str(user_id)
    IN  IF S.use_mongo
        THEN IF DictHas(S.db.users, user_id_str)
             THEN DictGet(S.db.users, user_id_str) ELSE NoDoc
        ELSE IF DictHas(S.local_users, user_id_str)
             THEN DictGet(S.local_users, user_id_str) ELSE NoDoc

\* d.get(key, default)
get(d, key, default) == IF key \in DOMAIN d THEN d[key] ELSE default

\* the search_count expression of add_user (line 190)
AddUserSearchCount(S, user_id, user_data) ==
    IF DOMAIN user_data # {} /\ "search_count" \in DOMAIN user_data
    THEN user_data.search_count
    ELSE IF DOMAIN get_user_info(S, user_id) # {}
         THEN get(get_user_info(S, user_id), "search_count", 0)
         ELSE 0

\* the MongoDB branch of add_user: $set user_info, $setOnInsert join_date, upsert
AddUserMongo(S, user_id, user_info, t) ==
    LET id == str(user_id)
        old == IF DictHas(S.db.users, id) THEN DictGet(S.db.users, id)
               ELSE [join_date |-> t]
    IN  [S EXCEPT !.db.users = DictSet(@, id, user_info @@ old)]

\* the file branch of add_user
AddUserFile(S, user_id, user_info, t) ==
    LET id == str(user_id)
        info == IF ~DictHas(S.local_users, id)
                THEN user_info @@ [join_date |-> t]
                ELSE LET existing_info == DictGet(S.local_users, id)
                     IN  [last_seen |-> user_info.last_seen,
                          username |-> user_info.username,
                          first_name |-> user_info.first_name,
                          join_date |-> get(existing_info, "join_date", t),
                          search_count |-> get(existing_info, "search_count", 0)]
    IN  _save_json([S EXCEPT !.local_users = DictSet(S.local_users, id, info)])

add_user(S, user_id, user_data, t) ==
    LET user_info == [last_seen |-> t,
                      username |-> get(user_data, "username", "-"),
                      first_name |-> get(user_data, "first_name", "-"),
                      search_count |-> AddUserSearchCount(S, user_id, user_data)]
    IN  IF S.use_mongo
        THEN AddUserMongo(S, user_id, user_info, t)
        ELSE AddUserFile(S, user_id, user_info, t)

increment_user_search(S, user_id) ==
    LET id == str(user_id)
    IN  IF S.use_mongo
        THEN \* update_one({'_id': id}, {'$inc': {'search_count': 1}}), no upsert
             IF DictHas(S.db.users, id)
             THEN [S EXCEPT !.db.users =
                     DictSet(@, id,
                        [search_count |-> get(DictGet(@, id), "search_count", 0) + 1]
                            @@ DictGet(@, id))]
             ELSE S
        ELSE IF DictHas(S.local_users, id)
             THEN _save_json([S EXCEPT !.local_users =
                     DictSet(@, id,
                        [search_count |-> get(DictGet(@, id), "search_count", 0) + 1]
                            @@ DictGet(@, id))])
             ELSE S

\* get_all_users for the file variant: list(self.local_users.keys())
FileUserIds(S) == DictKeys(S.local_users)

\* the ids held by either variant, as a set
UserIdSet(S) ==
    IF S.use_mongo THEN SeqToSet(DictKeys(S.db.users)) ELSE SeqToSet(FileUserIds(S))

remove_user(S, user_id) ==
    LET id == str(user_id)
    IN  IF S.use_mongo
        THEN [S EXCEPT !.db.users = DictDel(@, id)]
        ELSE IF DictHas(S.local_users, id)
             THEN _save_json([S EXCEPT !.local_users = DictDel(@, id)])
             ELSE S

\* add_group: last_active and the chat data are refreshed, join_date is set once
add_group(S, chat_id, chat_data, t) ==
    LET id == str(chat_id)
        group_info == [title |-> get(chat_data, "title", "-"),
                       username |-> get(chat_data, "username", "-"),
                       members_count |-> get(chat_data, "members_count", 0),
                       last_active |-> t]
    IN  IF S.use_mongo
        THEN [S EXCEPT !.db.groups =
                (id :> (group_info @@ (IF id \in DOMAIN @ THEN @[id]
                                       ELSE [join_date |-> t]))) @@ @]
        ELSE _save_json([S EXCEPT !.local_groups =
                (id :> (group_info @@
                        [join_date |-> IF id \in DOMAIN @
                                       THEN get(@[id], "join_date", t) ELSE t])) @@ @])

GroupIdSet(S) == DOMAIN (IF S.use_mongo THEN S.db.groups ELSE S.local_groups)

\* the MongoDB branch of increment_stat: $inc on the 'global' document, upsert
IncrementStatMongo(S, stat_name) ==
    LET doc == IF "global" \in DOMAIN S.db.stats THEN S.db.stats["global"] ELSE NoDoc
    IN  [S EXCEPT !.db.stats =
            ("global" :> ((stat_name :> (get(doc, stat_name, 0) + 1)) @@ doc)) @@ @]

\* the file branch of increment_stat
IncrementStatFile(S, stat_name) ==
    _save_json([S EXCEPT !.local_stats =
        (stat_name :> (get(@, stat_name, 0) + 1)) @@ @])

increment_stat(S, stat_name) ==
    IF S.use_mongo THEN IncrementStatMongo(S, stat_name)
    ELSE IncrementStatFile(S, stat_name)

\* get_stats
get_stats(S) ==
    IF S.use_mongo
    THEN LET stats == IF "global" \in DOMAIN S.db.stats THEN S.db.stats["global"]
                      ELSE NoDoc
         IN  [bot_started |-> S.local_stats.bot_started] @@ stats
    ELSE S.local_stats

\* a counter as the handlers read it: stats.get(name, 0)
Counter(S, stat_name) == get(get_stats(S), stat_name, 0)

----------------------------------------------------------------------------
(* Text: str.lower(), str.strip(), " ".join(...) *)

UpperCase == <<"A", "B">>
LowerCase == <<"a", "b">>

IsUpper(c) == \E i \in DOMAIN UpperCase : UpperCase[i] = c

LowerChar(c) ==
    IF IsUpper(c) THEN LowerCase[CHOOSE i \in DOMAIN UpperCase : UpperCase[i] = c] ELSE c

lower(s) == [i \in DOMAIN s |-> LowerChar(s[i])]

IsSpace(c) == c = " "

RECURSIVE lstrip(_)
lstrip(s) == IF s # <<>> /\ IsSpace(Head(s)) THEN lstrip(Tail(s)) ELSE s

RECURSIVE rstrip(_)
rstrip(s) ==
    IF s # <<>> /\ IsSpace(s[Len(s)]) THEN rstrip(SubSeq(s, 1, Len(s) - 1)) ELSE s

strip(s) == rstrip(lstrip(s))

RECURSIVE join(_)
join(args) ==
    IF args = <<>> THEN <<>>
    ELSE IF Len(args) = 1 THEN args[1]
    ELSE args[1] \o <<" ">> \o join(Tail(args))

----------------------------------------------------------------------------
(* AdvancedStorage: filters *)

\* add_filter that puts the new payload first
AddFilterPrepend(S, keyword0, file_data, t) ==
    LET keyword == lower(keyword0)
        fd == [added_at |-> t, added_by |-> get(file_data, "added_by", "Unknown")]
                 @@ file_data
    IN  IF S.use_mongo
        THEN [S EXCEPT !.db.filters =
                DictSet(@, keyword,
                        <<fd>> \o (IF DictHas(@, keyword) THEN DictGet(@, keyword)
                                   ELSE <<>>))]
        ELSE _save_json([S EXCEPT !.local_filters =
                DictSet(@, keyword,
                        <<fd>> \o (IF DictHas(@, keyword) THEN DictGet(@, keyword)
                                   ELSE <<>>))])

add_filter(S, keyword0, file_data, t) ==
    LET keyword == lower(keyword0)
        fd == [added_at |-> t, added_by |-> get(file_data, "added_by", "Unknown")]
                 @@ file_data
    IN  IF S.use_mongo
        THEN \* update_one({'keyword': keyword}, {'$push': {'files': fd}}, upsert=True)
             [S EXCEPT !.db.filters =
                DictSet(@, keyword,
                        Append(IF DictHas(@, keyword) THEN DictGet(@, keyword) ELSE <<>>,
                               fd))]
        ELSE _save_json([S EXCEPT !.local_filters =
                DictSet(@, keyword,
                        Append(IF DictHas(@, keyword) THEN DictGet(@, keyword) ELSE <<>>,
                               fd))])

\* delete_filter that looks the keyword up as it was given
DeleteFilterNoLower(S, keyword) ==
    IF S.use_mongo
    THEN [S |-> [S EXCEPT !.db.filters = DictDel(@, keyword)],
          success |-> DictHas(S.db.filters, keyword)]
    ELSE [S |-> IF DictHas(S.local_filters, keyword)
                THEN _save_json([S EXCEPT !.local_filters = DictDel(@, keyword)])
                ELSE S,
          success |-> DictHas(S.local_filters, keyword)]

\* delete_filter: the storage after the call and the returned success
delete_filter(S, keyword0) ==
    LET keyword == lower(keyword0)
    IN  IF S.use_mongo
        THEN \* delete_one({'keyword': keyword}); success = deleted_count > 0
             [S |-> [S EXCEPT !.db.filters = DictDel(@, keyword)],
              success |-> DictHas(S.db.filters, keyword)]
        ELSE LET success == DictHas(S.local_filters, keyword)
             IN  [S |-> IF success
                        THEN _save_json([S EXCEPT !.local_filters = DictDel(@, keyword)])
                        ELSE S,
                  success |-> success]

\* the keywords stored by either variant, and the payload list of one of them
FilterKeys(S) ==
    SeqToSet(DictKeys(IF S.use_mongo THEN S.db.filters ELSE S.local_filters))

FilterFiles(S, keyword) ==
    DictGet(IF S.use_mongo THEN S.db.filters ELSE S.local_filters, keyword)

----------------------------------------------------------------------------
(* Parts shared by the specifications below *)

Idle == [name |-> "none"]

NoBc == [pc |-> "off"]
NoKm == [pc |-> "off"]

\* time.time() moves on between two calls
Tick ==
    /\ now < MaxTime
    /\ now' = now + 1
    /\ UNCHANGED <<STORAGE, mirror, last, bc, km, tasks>>

----------------------------------------------------------------------------
(* /addfilter and /delfilter *)

\* args is message.command[1:] of a handler: the arguments after the command name

\* add_filter_handler that does not strip the joined arguments
AddFilterHandlerNoStrip(S, args, replied_msg, from_user, t) ==
    IF Len(args) + 1 < 2
    THEN S
    ELSE add_filter(S, join(args),
                    [chat_id |-> replied_msg.chat_id, message_id |-> replied_msg.id,
                     added_by |-> from_user, file_type |-> "text"], t)

add_filter_handler(S, args, replied_msg, from_user, t) ==
    IF Len(args) + 1 < 2
    THEN S
    ELSE LET keyword == strip(join(args))
             file_data == [chat_id |-> replied_msg.chat_id,
                           message_id |-> replied_msg.id,
                           added_by |-> from_user, file_type |-> "text"]
         IN  add_filter(S, keyword, file_data, t)

\* del_filter_handler: the storage afterwards and the reply sent
del_filter_handler(S, args) ==
    IF Len(args) + 1 < 2
    THEN [S |-> S, reply |-> "usage"]
    ELSE LET r == delete_filter(S, strip(join(args)))
         IN  [S |-> r.S, reply |-> IF r.success THEN "deleted" ELSE "not found"]

----------------------------------------------------------------------------
(* The user directory, one call after another, on either variant *)

UserIds == {1, 2}

\* the user_data dicts a caller can pass; a dict without keys stands for None too
UserDatas ==
    {NoDoc}
    \cup {[username |-> "u", first_name |-> "f"]}
    \cup {[username |-> "u", first_name |-> "f", search_count |-> 0]}

InitUser ==
    /\ \E m \in BOOLEAN :
          STORAGE = NewStorage(m, FALSE, NoFiles, NoCollections, 0)
    /\ mirror = NewStorage(TRUE, FALSE, NoFiles, NoCollections, 0)
    /\ now = 0
    /\ last = Idle
    /\ bc = NoBc
    /\ km = NoKm
    /\ tasks = <<>>

\* what get_user_info shows of a user before and after a call
Seen(S, user_id) == get_user_info(S, user_id)

CallAddUser ==
    \E id \in UserIds, ud \in UserDatas :
        /\ STORAGE' = add_user(STORAGE, id, ud, now)
        /\ last' = [name |-> "add_user", id |-> id,
                    known |-> str(id) \in UserIdSet(STORAGE)]
        /\ UNCHANGED <<mirror, now, bc, km, tasks>>

CallIncrementUserSearch ==
    \E id \in UserIds :
        /\ get(Seen(STORAGE, id), "search_count", 0) < MaxSearch
        /\ STORAGE' = increment_user_search(STORAGE, id)
        /\ last' = [name |-> "increment_user_search", id |-> id,
                    known |-> str(id) \in UserIdSet(STORAGE)]
        /\ UNCHANGED <<mirror, now, bc, km, tasks>>

CallRemoveUser ==
    \E id \in UserIds :
        /\ STORAGE' = remove_user(STORAGE, id)
        /\ last' = [name |-> "remove_user", id |-> id,
                    known |-> str(id) \in UserIdSet(STORAGE)]
        /\ UNCHANGED <<mirror, now, bc, km, tasks>>

NextUser == Tick \/ CallAddUser \/ CallIncrementUserSearch \/ CallRemoveUser

SpecUser == InitUser /\ [][NextUser]_vars

AdminId == 1

----------------------------------------------------------------------------
(* keyword_match_handler *)

Letters == {"a", "b", "c", "d", "e", "f", "g", "h", "A", "B"}
DigitChars == {"0", "1", "2"}

\* \w of a str pattern: letters, digits and the underscore
IsWordChar(c) == c \in Letters \cup DigitChars \cup {"_"}

\* \b at position p, between text[p-1] and text[p]
WordBoundary(text, p) ==
    (p > 1 /\ IsWordChar(text[p - 1])) # (p <= Len(text) /\ IsWordChar(text[p]))

OccursAt(keyword, text, i) ==
    /\ i + Len(keyword) - 1 <= Len(text)
    /\ SubSeq(text, i, i + Len(keyword) - 1) = keyword

\* re.search(keyword, text) without the two \b
SearchSubstring(keyword, text) ==
    \E i \in 1..Len(text) : OccursAt(keyword, text, i)

\* re.search(r'\b' + re.escape(keyword) + r'\b', text)
SearchWord(keyword, text) ==
    \E i \in 1..Len(text) :
        /\ OccursAt(keyword, text, i)
        /\ WordBoundary(text, i)
        /\ WordBoundary(text, i + Len(keyword))

\* the loop over all_filters.keys(): empty keywords are skipped
MatchedKeywords(all_filters, text) ==
    SelectSeq(DictKeys(all_filters), LAMBDA keyword : keyword # <<>> /\ SearchWord(keyword, text))

Min(a, b) == IF a < b THEN a ELSE b

\* seq[:n]
Slice(seq, n) == SubSeq(seq, 1, Min(Len(seq), n))

\* the matched keywords without their cap
KeywordsToSendAll(matched_keywords) == matched_keywords

\* matched_keywords[:5] and files_to_send[:10]
KeywordsToSend(matched_keywords) == Slice(matched_keywords, MaxMatches)
FilesToSend(files) == Slice(files, MaxFiles)

\* get_all_filters: the MongoDB variant builds a new dict, the file variant returns
\* self.local_filters itself
get_all_filters(S) == IF S.use_mongo THEN S.db.filters ELSE S.local_filters

\* all_filters as the handler sees it after the call: its own dict, or local_filters
AllFilters(k, S) == IF k.alias THEN S.local_filters ELSE k.all_filters

\* the payloads of the j-th keyword to send, newest first
FilesOfNewestFirst(k, S, j) ==
    LET keyword == KeywordsToSend(k.matched_keywords)[j]
        d == AllFilters(k, S)
        files == FilesToSend(IF DictHas(d, keyword) THEN DictGet(d, keyword) ELSE <<>>)
    IN  [i \in 1..Len(files) |-> files[Len(files) + 1 - i]]

\* all_filters.get(keyword, [])[:10] for the j-th keyword to send
FilesOf(k, S, j) ==
    LET keyword == KeywordsToSend(k.matched_keywords)[j]
        d == AllFilters(k, S)
    IN  FilesToSend(IF DictHas(d, keyword) THEN DictGet(d, keyword) ELSE <<>>)

\* the next copy_message of the two nested loops after (ki, fi), if there is one
NextReplay(k, S) ==
    IF k.fi < Len(k.files_to_send)
    THEN [more |-> TRUE, ki |-> k.ki, fi |-> k.fi + 1, files |-> k.files_to_send]
    ELSE LET later == {j \in (k.ki + 1)..Len(KeywordsToSend(k.matched_keywords)) :
                          FilesOf(k, S, j) # <<>>}
         IN  IF later = {}
             THEN [more |-> FALSE, ki |-> k.ki, fi |-> k.fi, files |-> k.files_to_send]
             ELSE LET j == CHOOSE x \in later : \A y \in later : x <= y
                  IN  [more |-> TRUE, ki |-> j, fi |-> 1, files |-> FilesOf(k, S, j)]

\* the bookkeeping before the match: the sender or the group is registered
Bookkeeping(S, message, member_count, t) ==
    IF message.chat_type = "private"
    THEN increment_user_search(
            add_user(S, message.chat_id, [username |-> "u", first_name |-> "f"], t),
            message.chat_id)
    ELSE add_group(S, message.chat_id,
                   [title |-> "g", username |-> "-", members_count |-> member_count], t)

\* total_searches counted once for every keyword that fired
RECURSIVE CountSearchPerKeyword(_, _)
CountSearchPerKeyword(S, matched_keywords) ==
    IF matched_keywords = <<>> THEN S
    ELSE CountSearchPerKeyword(increment_stat(S, "total_searches"),
                               Tail(matched_keywords))

\* if matched_keywords: await STORAGE.increment_stat('total_searches')
CountSearch(S, matched_keywords) ==
    IF matched_keywords # <<>> THEN increment_stat(S, "total_searches") ELSE S

\* a text message arrives: bookkeeping, one read of the filters, the match, and the
\* total_searches increment when a keyword fired; all_filters is the dict as it
\* was read (the file variant goes on reading local_filters, see AllFilters)
KmReceive ==
    /\ km.pc = "off"
    /\ \E member_count \in {0, 5} :
        LET message == km.message
            S1 == Bookkeeping(STORAGE, message, member_count, now)
            text == lower(message.text)
            all_filters == get_all_filters(S1)
            matched_keywords == MatchedKeywords(all_filters, text)
        IN  /\ message.chat_type = "private" => member_count = 0
            /\ STORAGE' = CountSearch(S1, matched_keywords)
            /\ km' = [pc |-> IF matched_keywords # <<>> THEN "replay" ELSE "done",
                      message |-> message,
                      alias |-> ~S1.use_mongo,
                      all_filters |-> all_filters,
                      matched_keywords |-> matched_keywords,
                      ki |-> 0, fi |-> 0, files_to_send |-> <<>>,
                      sent |-> <<>>]
            /\ last' = [name |-> "message", searches |-> Counter(STORAGE, "total_searches")]
    /\ UNCHANGED <<mirror, now, bc, tasks>>

\* the storage calls of the bookkeeping, in the order the handler awaits them
BookkeepingCalls(message) ==
    IF message.chat_type = "private"
    THEN <<"add_user", "increment_user_search">> ELSE <<"add_group">>

\* a text message arrives and the (MongoDB) call number failing of its
\* bookkeeping raises: the calls before it have been made, and the exception
\* leaves the handler, since no try encloses them; the file variant catches
\* the errors of its saves
KmReceiveFails ==
    /\ km.pc = "off"
    /\ STORAGE.use_mongo
    /\ \E failing \in DOMAIN BookkeepingCalls(km.message) :
        LET message == km.message
        IN  /\ STORAGE' = IF failing = 1 THEN STORAGE
                          ELSE add_user(STORAGE, message.chat_id,
                                        [username |-> "u", first_name |-> "f"], now)
            /\ km' = [pc |-> "raised",
                      message |-> message,
                      alias |-> FALSE,
                      all_filters |-> EmptyDict,
                      matched_keywords |-> <<>>,
                      ki |-> 0, fi |-> 0, files_to_send |-> <<>>,
                      sent |-> <<>>]
            /\ last' = [name |-> "storage error",
                        call |-> BookkeepingCalls(message)[failing]]
    /\ UNCHANGED <<mirror, now, bc, tasks>>

\* one pass of the inner loop body: copy_message for the next payload; the loop
\* is left at once after an outcome of aborting
ReplayStepAs(k, S, outcome, aborting) ==
    LET n == NextReplay(k, S)
        file_data == n.files[n.fi]
    IN  [k EXCEPT !.pc = IF outcome \in aborting THEN "done" ELSE @,
                  !.ki = n.ki, !.fi = n.fi, !.files_to_send = n.files,
                  !.sent = Append(@, [keyword |-> n.ki,
                                      chat_id |-> file_data.chat_id,
                                      message_id |-> file_data.message_id])]

\* an error other than FloodWait ends the replay
ReplayStepErrorAborts(k, S, outcome) == ReplayStepAs(k, S, outcome, {"error"})

\* try: copy_message, sleep(0.5); except FloodWait: sleep(e.value); except
\* Exception: print. After each of the three the for loop goes on with the
\* payload that follows
ReplayStep(k, S, outcome) == ReplayStepAs(k, S, outcome, {})

\* one client.copy_message of the replay loops
KmCopy ==
    /\ km.pc = "replay"
    /\ NextReplay(km, STORAGE).more
    /\ \E outcome \in {"ok", "FloodWait", "error"} :
          /\ km' = ReplayStep(km, STORAGE, outcome)
          /\ last' = [name |-> "copy_message", outcome |-> outcome]
    /\ UNCHANGED <<STORAGE, mirror, now, bc, tasks>>

\* both loops are through
KmFinish ==
    /\ km.pc = "replay"
    /\ ~NextReplay(km, STORAGE).more
    /\ km' = [km EXCEPT !.pc = "done"]
    /\ last' = [name |-> "return"]
    /\ UNCHANGED <<STORAGE, mirror, now, bc, tasks>>

----------------------------------------------------------------------------
(* The matcher on one message, over stores that /addfilter has filled *)

KeywordLetters == <<"a", "b", "c", "d", "e", "f", "g", "h">>

\* the message that names every keyword of a filled store
RECURSIVE Sentence(_)
Sentence(n) ==
    IF n = 0 THEN <<>>
    ELSE IF n = 1 THEN <<KeywordLetters[1]>>
    ELSE Sentence(n - 1) \o <<" ", KeywordLetters[n]>>

\* the store after /addfilter <letter i> in reply to message j of chat i, for
\* i = 1..nk and j = 1..np: one entry per keyword, its payloads in the order added
FilledStore(S, nk, np) ==
    LET d == [i \in 1..nk |->
                [k |-> <<KeywordLetters[i]>>,
                 v |-> [j \in 1..np |->
                          [chat_id |-> i, message_id |-> j, added_by |-> AdminId,
                           file_type |-> "text", added_at |-> 0]]]]
    IN  IF S.use_mongo THEN [S EXCEPT !.db.filters = d]
        ELSE _save_json([S EXCEPT !.local_filters = d])

TextChars == {"a", "A", "2", "+", " "}

Strings(chars, lo, hi) == UNION {[1..n -> chars] : n \in lo..hi}

InitMatch ==
    /\ \E m \in BOOLEAN :
        LET S0 == NewStorage(m, FALSE, NoFiles, NoCollections, 0)
        IN  \/ \E nk \in 0..NumKeywords, np \in 1..NumPayloads :
                  /\ STORAGE = FilledStore(S0, nk, np)
                  /\ km = [pc |-> "off",
                           message |-> [chat_type |-> "private", chat_id |-> 1,
                                        text |-> Sentence(NumKeywords)]]
            \/ \E typed \in Strings(TextChars \ {" "}, 1, MaxKwLen),
                  text \in Strings(TextChars, 1, MaxTextLen),
                  chat_type \in {"private", "group"} :
                  /\ STORAGE = add_filter_handler(S0, <<typed>>, [chat_id |-> 7, id |-> 1],
                                                  AdminId, 0)
                  /\ km = [pc |-> "off",
                           message |-> [chat_type |-> chat_type, chat_id |-> 1,
                                        text |-> text]]
    /\ mirror = NewStorage(TRUE, FALSE, NoFiles, NoCollections, 0)
    /\ now = 0
    /\ last = Idle
    /\ bc = NoBc
    /\ tasks = <<>>

NextMatch == KmReceive \/ KmCopy \/ KmFinish

SpecMatch == InitMatch /\ [][NextMatch]_vars

----------------------------------------------------------------------------
(* The filter index driven by the two admin commands, on either variant, and  *)
(* then one message that the matcher answers                                  *)

\* one argument of a command: a bare word, or a quoted one that may be empty, blank
\* or padded
Tokens == {<<>>, <<"a">>, <<" ", "A", " ">>}

\* no argument, one, or two
ArgLists == {<<>>} \cup {<<t>> : t \in Tokens} \cup {<<<<"a">>, <<"B">>>>}

\* the messages an admin replies to with /addfilter
Messages == {[chat_id |-> 7, id |-> m] : m \in {1, 2, 3}}

\* the messages that arrive once the commands are through
Triggers == {[chat_type |-> "private", chat_id |-> 1, text |-> t] :
                t \in {<<"A">>, <<"a", " ", "B">>}}

PayloadCount(S) ==
    LET keys == FilterKeys(S)
        RECURSIVE Sum(_)
        Sum(ks) == IF ks = {} THEN 0
                   ELSE LET k == CHOOSE x \in ks : TRUE
                        IN  Len(FilterFiles(S, k)) + Sum(ks \ {k})
    IN  Sum(keys)

InitFilter ==
    /\ \E m \in BOOLEAN :
          STORAGE = NewStorage(m, FALSE, NoFiles, NoCollections, 0)
    /\ mirror = NewStorage(TRUE, FALSE, NoFiles, NoCollections, 0)
    /\ now = 0
    /\ last = Idle
    /\ bc = NoBc
    /\ \E message \in Triggers : km = [pc |-> "off", message |-> message]
    /\ tasks = <<>>

AddFilterCmd ==
    \E args \in ArgLists, msg \in Messages :
        /\ km.pc = "off"
        /\ PayloadCount(STORAGE) < MaxPayloads
        /\ STORAGE' = add_filter_handler(STORAGE, args, msg, AdminId, now)
        /\ last' = [name |-> "addfilter", args |-> args, msg |-> msg.id, reply |-> "-"]
        /\ UNCHANGED <<mirror, now, bc, km, tasks>>

DelFilterCmd ==
    \E args \in ArgLists :
        LET r == del_filter_handler(STORAGE, args)
        IN  /\ km.pc = "off"
            /\ STORAGE' = r.S
            /\ last' = [name |-> "delfilter", args |-> args, msg |-> 0, reply |-> r.reply]
            /\ UNCHANGED <<mirror, now, bc, km, tasks>>

NextFilter == AddFilterCmd \/ DelFilterCmd \/ KmReceive \/ KmCopy \/ KmFinish

SpecFilter == InitFilter /\ [][NextFilter]_vars

----------------------------------------------------------------------------
(* /broadcast *)

\* what replied_msg.copy(user_id) can answer: delivered, UserIsBlocked or
\* PeerIdInvalid, FloodWait, any other exception
CopyOutcomes == {"ok", "unreachable", "flood", "error"}

\* what a reply_text / edit_text of the status message can answer
TextOutcomes == {"ok", "flood", "error"}

\* user_data as start_command and keyword_match_handler build it
StartUserData == [username |-> "u", first_name |-> "f"]

\* the Directory after the users 1..n have sent /start, in that order
RECURSIVE Registered(_, _)
Registered(S, n) ==
    IF n = 0 THEN S ELSE add_user(Registered(S, n - 1), n, StartUserData, 0)

\* a store in use: n registered users, a filter, a group and a counted search
Populated(S, n) ==
    increment_stat(
        add_group(
            add_filter(Registered(S, n), <<"a">>,
                       [chat_id |-> 7, message_id |-> 1, added_by |-> AdminId], 0),
            9, [title |-> "g", members_count |-> 2], 0),
        "total_searches")

\* get_all_users: the ids as strings, in the order the store lists them
get_all_users(S) ==
    IF S.use_mongo THEN DictKeys(S.db.users) ELSE FileUserIds(S)

\* the locals of broadcast_handler after the snapshot; attempts and others are
\* history: the copy calls made so far with their outcomes, and the ids that
\* other handlers registered or removed since the snapshot
BcRunning(S) ==
    [pc |-> "running", user_ids_str |-> get_all_users(S), index |-> 0,
     success_count |-> 0, failed_count |-> 0, removed_count |-> 0,
     attempts |-> <<>>, others |-> {}]

\* the body of the for loop without the unreachable branch's removal
BcIterationNoRemove(S, b, outcome) ==
    LET user_id_str == b.user_ids_str[b.index + 1]
        b1 == [b EXCEPT !.index = @ + 1,
                        !.attempts = Append(@, [target |-> user_id_str,
                                                outcome |-> outcome])]
    IN  IF outcome = "ok"
        THEN [S |-> S, bc |-> [b1 EXCEPT !.success_count = @ + 1]]
        ELSE IF outcome = "unreachable"
        THEN [S |-> S,
              bc |-> [b1 EXCEPT !.removed_count = @ + 1, !.failed_count = @ + 1]]
        ELSE IF outcome = "flood"
        THEN [S |-> S, bc |-> b1]
        ELSE [S |-> S, bc |-> [b1 EXCEPT !.failed_count = @ + 1]]

\* the body of the for loop taking the branch of the outcome `taken` where the
\* transport answered `outcome`
BcIterationAs(S, b, outcome, taken) ==
    LET user_id_str == b.user_ids_str[b.index + 1]
        user_id == int(user_id_str)
        b1 == [b EXCEPT !.index = @ + 1,
                        !.attempts = Append(@, [target |-> user_id_str,
                                                outcome |-> outcome])]
    IN  IF taken = "ok"
        THEN [S |-> S, bc |-> [b1 EXCEPT !.success_count = @ + 1]]
        ELSE IF taken = "unreachable"
        THEN [S |-> remove_user(S, user_id),
              bc |-> [b1 EXCEPT !.removed_count = @ + 1, !.failed_count = @ + 1]]
        ELSE IF taken = "flood"
        THEN [S |-> S, bc |-> b1]
        ELSE IF taken = "error"
        THEN [S |-> S, bc |-> [b1 EXCEPT !.failed_count = @ + 1]]
        ELSE [S |-> S, bc |-> [b1 EXCEPT !.pc = "raised"]]

\* the loop body with one except clause for every exception but FloodWait
BcIterationErrorRemoves(S, b, outcome) ==
    BcIterationAs(S, b, outcome, IF outcome = "error" THEN "unreachable" ELSE outcome)

\* the loop body with FloodWait caught by the last except clause
BcIterationFloodFails(S, b, outcome) ==
    BcIterationAs(S, b, outcome, IF outcome = "flood" THEN "error" ELSE outcome)

\* the loop body with FloodWait caught together with UserIsBlocked
BcIterationFloodRemoves(S, b, outcome) ==
    BcIterationAs(S, b, outcome, IF outcome = "flood" THEN "unreachable" ELSE outcome)

\* the loop body without the last except clause
BcIterationErrorEscapes(S, b, outcome) ==
    BcIterationAs(S, b, outcome, IF outcome = "error" THEN "escapes" ELSE outcome)

\* the loop body counting an unreachable target as removed but not as failed
BcIterationRemovedOnly(S, b, outcome) ==
    LET r == BcIterationAs(S, b, outcome, outcome)
    IN  IF outcome = "unreachable"
        THEN [S |-> r.S, bc |-> [r.bc EXCEPT !.failed_count = @ - 1]]
        ELSE r

\* the loop body enumerating the stored users instead of the snapshot
BcIterationLive(S, b, outcome) ==
    LET ids == get_all_users(S)
        live == IF b.index + 1 <= Len(ids)
                THEN [b EXCEPT !.user_ids_str[b.index + 1] = ids[b.index + 1]]
                ELSE b
        r == BcIterationAs(S, live, outcome, outcome)
    IN  [S |-> r.S, bc |-> [r.bc EXCEPT !.user_ids_str = b.user_ids_str]]

\* the loop body enumerating the snapshot from its end
BcIterationBackwards(S, b, outcome) ==
    LET k == Len(b.user_ids_str) - b.index
        turned == [b EXCEPT !.user_ids_str[b.index + 1] = b.user_ids_str[k]]
        r == BcIterationAs(S, turned, outcome, outcome)
    IN  [S |-> r.S, bc |-> [r.bc EXCEPT !.user_ids_str = b.user_ids_str]]

\* the body of the for loop for the next target of the snapshot: one
\* replied_msg.copy and the branch its outcome selects; every branch falls
\* through to the next target of the enumeration
BcIteration(S, b, outcome) ==
    LET user_id_str == b.user_ids_str[b.index + 1]
        user_id == int(user_id_str)
        b1 == [b EXCEPT !.index = @ + 1,
                        !.attempts = Append(@, [target |-> user_id_str,
                                                outcome |-> outcome])]
    IN  IF outcome = "ok"
        THEN [S |-> S, bc |-> [b1 EXCEPT !.success_count = @ + 1]]
        ELSE IF outcome = "unreachable"
        THEN [S |-> remove_user(S, user_id),
              bc |-> [b1 EXCEPT !.removed_count = @ + 1, !.failed_count = @ + 1]]
        ELSE IF outcome = "flood"
        THEN [S |-> S, bc |-> b1]
        ELSE [S |-> S, bc |-> [b1 EXCEPT !.failed_count = @ + 1]]

\* the handler up to the loop, without the test of replied_msg
BcSetupNoReplyCheck(S, replied_msg, status) ==
    IF status # "ok" THEN [pc |-> "raised"] ELSE BcRunning(S)

\* the handler up to the loop: without a replied message it answers and
\* returns; the first status message is sent outside any try, so its failure
\* leaves the handler; otherwise the population is read once
BcSetup(S, replied_msg, status) ==
    IF ~replied_msg THEN [pc |-> "aborted"]
    ELSE IF status # "ok" THEN [pc |-> "raised"]
    ELSE BcRunning(S)

BcStart ==
    /\ bc.pc = "off"
    /\ \E replied_msg \in BOOLEAN, status \in TextOutcomes :
          /\ bc' = BcSetup(STORAGE, replied_msg, status)
          /\ last' = [name |-> "broadcast", replied_msg |-> replied_msg,
                      status |-> status]
    /\ UNCHANGED <<STORAGE, mirror, now, km, tasks>>

\* one iteration of the loop, with its progress update (update_interval is 1
\* for fewer than 40 users); the outcome of the update is swallowed
BcDeliver ==
    /\ bc.pc = "running"
    /\ bc.index < Len(bc.user_ids_str)
    /\ \E outcome \in CopyOutcomes, progress \in TextOutcomes :
          LET r == BcIteration(STORAGE, bc, outcome)
          IN  /\ STORAGE' = r.S
              /\ bc' = r.bc
              /\ last' = [name |-> "copy", target |-> bc.user_ids_str[bc.index + 1],
                          outcome |-> outcome, progress |-> progress]
    /\ UNCHANGED <<mirror, now, km, tasks>>

\* the statistics of the report, computed without the test of total_users
FinalStatisticsNoGuard(total_users, success_count, duration) ==
    IF total_users = 0
    THEN [raised |-> TRUE, success_rate |-> 0, avg_speed |-> 0]
    ELSE [raised |-> FALSE,
          success_rate |-> (success_count * 100) \div total_users,
          avg_speed |-> (total_users * 100) \div (IF duration > 1 THEN duration ELSE 1)]

\* success_rate (in percent) and avg_speed of the report; duration is counted in
\* hundredths of a second, so max(duration, 0.01) is at least 1; nothing is
\* divided when the population is empty
FinalStatistics(total_users, success_count, duration) ==
    IF total_users = 0
    THEN [raised |-> FALSE, success_rate |-> 0, avg_speed |-> 0]
    ELSE [raised |-> FALSE,
          success_rate |-> (success_count * 100) \div total_users,
          avg_speed |-> (total_users * 100) \div (IF duration > 1 THEN duration ELSE 1)]

\* after the loop: total_broadcasts is incremented, the statistics are computed
\* and the result is reported; the last edit_text is outside any try. The
\* clock of the model stands still during a run: duration is 0.
BcFinish ==
    /\ bc.pc = "running"
    /\ bc.index = Len(bc.user_ids_str)
    /\ \E report \in TextOutcomes :
          LET stats == FinalStatistics(Len(bc.user_ids_str), bc.success_count, 0)
          IN  /\ bc' = [bc EXCEPT !.pc = IF stats.raised \/ report # "ok"
                                         THEN "raised" ELSE "completed"]
              /\ last' = [name |-> "report", report |-> report,
                          success_rate |-> stats.success_rate,
                          avg_speed |-> stats.avg_speed]
    /\ STORAGE' = increment_stat(STORAGE, "total_broadcasts")
    /\ UNCHANGED <<mirror, now, km, tasks>>

\* start_command of another user, run while the broadcast awaits
BcRegister ==
    /\ bc.pc = "running"
    /\ Cardinality(bc.others) < MaxOthers
    /\ \E id \in 1..(MaxUsers + 1) :
          /\ str(id) \notin bc.others
          /\ STORAGE' = add_user(STORAGE, id, StartUserData, now)
          /\ bc' = [bc EXCEPT !.others = @ \cup {str(id)}]
          /\ last' = [name |-> "add_user", id |-> id,
                      known |-> str(id) \in UserIdSet(STORAGE)]
    /\ UNCHANGED <<mirror, now, km, tasks>>

\* clean_db_handler of another admin removing a user while the broadcast awaits
BcUnregister ==
    /\ bc.pc = "running"
    /\ Cardinality(bc.others) < MaxOthers
    /\ \E id \in 1..MaxUsers :
          /\ str(id) \in UserIdSet(STORAGE)
          /\ str(id) \notin bc.others
          /\ STORAGE' = remove_user(STORAGE, id)
          /\ bc' = [bc EXCEPT !.others = @ \cup {str(id)}]
          /\ last' = [name |-> "remove_user", id |-> id, known |-> TRUE]
    /\ UNCHANGED <<mirror, now, km, tasks>>

InitBroadcast ==
    /\ \E m \in BOOLEAN, n \in 0..MaxUsers :
          STORAGE = Populated(NewStorage(m, FALSE, NoFiles, NoCollections, 0), n)
    /\ mirror = NewStorage(TRUE, FALSE, NoFiles, NoCollections, 0)
    /\ now = 0
    /\ last = Idle
    /\ bc = NoBc
    /\ km = NoKm
    /\ tasks = <<>>

NextBroadcast == BcStart \/ BcDeliver \/ BcFinish \/ BcRegister \/ BcUnregister

SpecBroadcast == InitBroadcast /\ [][NextBroadcast]_vars

\* the event loop resumes the handler whenever the call it awaits has returned
SpecBroadcastFair ==
    SpecBroadcast /\ WF_vars(BcDeliver) /\ WF_vars(BcFinish)

----------------------------------------------------------------------------
(* Handlers processed concurrently on the event loop *)

StatNames == {"total_searches", "total_broadcasts"}

\* the storage call that the handler of update i has reached: increment_stat
\* (keyword_match_handler, broadcast_handler) or add_filter (add_filter_handler)
ConcCalls(i) ==
    {[op |-> "increment_stat", stat_name |-> n] : n \in StatNames}
        \cup {[op |-> "add_filter", keyword |-> <<"a">>,
               file_data |-> [chat_id |-> 7, message_id |-> i]]}

\* the handler of one update, suspended before its storage call; seen and
\* pending are history: the counters as they were when the update arrived, and
\* the number of other calls in flight when this one took effect
NewTask(S, call) ==
    [call |-> call, pc |-> "ready", seen |-> get_stats(S), pending |-> 0]

RECURSIVE NewTasks(_, _, _)
NewTasks(S, calls, n) ==
    IF n = 0 THEN <<>>
    ELSE Append(NewTasks(S, calls, n - 1), NewTask(S, calls[n]))

\* the storage method the task calls
ApplyCall(S, call, t) ==
    IF call.op = "increment_stat" THEN increment_stat(S, call.stat_name)
    ELSE add_filter(S, call.keyword, call.file_data, t)

\* a call that writes the value it saw when the update arrived, plus one
ApplyStale(S, task, t) ==
    IF task.call.op = "increment_stat"
    THEN LET n == task.call.stat_name
             v == get(task.seen, n, 0) + 1
         IN  IF S.use_mongo
             THEN [S EXCEPT !.db.stats =
                     ("global" :> ((n :> v) @@ (IF "global" \in DOMAIN @
                                                THEN @["global"] ELSE NoDoc))) @@ @]
             ELSE _save_json([S EXCEPT !.local_stats = (n :> v) @@ @])
    ELSE ApplyCall(S, task.call, t)

\* the file branch of the called method: it has no await in it, so it runs from
\* its first statement to the end of _save_json without leaving the event loop
FileApply(S, task, t) == ApplyCall(S, task.call, t)

\* the MongoDB server carrying out the update_one of the called method: one
\* $inc or $push on one document
ServerApply(S, task, t) == ApplyCall(S, task.call, t)

InFlight == {i \in DOMAIN tasks : tasks[i].pc = "awaiting"}

\* file variant: the handler resumes and makes its call
ConcCallFile ==
    /\ ~STORAGE.use_mongo
    /\ \E i \in DOMAIN tasks :
          /\ tasks[i].pc = "ready"
          /\ STORAGE' = FileApply(STORAGE, tasks[i], now)
          /\ tasks' = [tasks EXCEPT ![i].pc = "done",
                                    ![i].pending = Cardinality(InFlight \ {i})]
          /\ last' = [name |-> tasks[i].call.op, task |-> i]
    /\ UNCHANGED <<mirror, now, bc, km>>

\* MongoDB variant: the handler resumes, sends its update_one and awaits the answer
ConcSend ==
    /\ STORAGE.use_mongo
    /\ \E i \in DOMAIN tasks :
          /\ tasks[i].pc = "ready"
          /\ tasks' = [tasks EXCEPT ![i].pc = "awaiting"]
          /\ last' = [name |-> "update_one", task |-> i]
    /\ UNCHANGED <<STORAGE, mirror, now, bc, km>>

\* MongoDB variant: the server applies one of the updates in flight and answers
ConcServe ==
    /\ STORAGE.use_mongo
    /\ \E i \in InFlight :
          /\ STORAGE' = ServerApply(STORAGE, tasks[i], now)
          /\ tasks' = [tasks EXCEPT ![i].pc = "done",
                                    ![i].pending = Cardinality(InFlight \ {i})]
          /\ last' = [name |-> tasks[i].call.op, task |-> i]
    /\ UNCHANGED <<mirror, now, bc, km>>

\* MaxTasks or fewer updates arrive at a store that has counted prior searches
InitConc ==
    /\ \E m \in BOOLEAN, prior \in BOOLEAN, n \in 1..MaxTasks :
          LET S0 == NewStorage(m, FALSE, NoFiles, NoCollections, 0)
              S == IF prior THEN increment_stat(S0, "total_searches") ELSE S0
          IN  /\ STORAGE = S
              /\ \E calls \in [1..n -> UNION {ConcCalls(i) : i \in 1..n}] :
                    /\ \A i \in 1..n : calls[i] \in ConcCalls(i)
                    /\ tasks = NewTasks(S, calls, n)
    /\ mirror = NewStorage(TRUE, FALSE, NoFiles, NoCollections, 0)
    /\ now = 0
    /\ last = Idle
    /\ bc = NoBc
    /\ km = NoKm

NextConc == ConcCallFile \/ ConcSend \/ ConcServe

SpecConc == InitConc /\ [][NextConc]_vars

\* the event loop resumes every handler that can run, and the server answers
SpecConcFair == SpecConc /\ WF_vars(NextConc)

----------------------------------------------------------------------------
(* The two variants run side by side: STORAGE is the file variant, mirror the
   MongoDB variant, and every storage call is made on both *)

GroupIds == {9}
GroupDatas == {NoDoc, [title |-> "g", members_count |-> 2]}
EqKeywords == {<<"a">>, <<"B">>}
EqDeleteKeywords == {<<"A">>, <<"b">>}

\* what a caller can observe of a storage through its reading methods: the
\* keyword-to-payloads mapping, the user and group ids, join_date and
\* search_count of every user, and the counters
Observed(S) ==
    [filters |-> [k \in FilterKeys(S) |-> FilterFiles(S, k)],
     users |-> UserIdSet(S),
     groups |-> GroupIdSet(S),
     info |-> [id \in UserIdSet(S) |->
                 [join_date |-> get(get_user_info(S, int(id)), "join_date", 0),
                  search_count |-> get(get_user_info(S, int(id)), "search_count", 0)]],
     counters |-> [n \in StatNames |-> Counter(S, n)]]

\* each action makes one storage call on both variants at time now; time moves
\* on with every call
EqAddFilter ==
    /\ now < MaxOps
    /\ \E k \in EqKeywords :
          LET file_data == [chat_id |-> 7, message_id |-> now + 1, added_by |-> AdminId]
          IN  /\ STORAGE' = add_filter(STORAGE, k, file_data, now)
              /\ mirror' = add_filter(mirror, k, file_data, now)
    /\ now' = now + 1
    /\ last' = [name |-> "add_filter"]
    /\ UNCHANGED <<bc, km, tasks>>

EqDeleteFilter ==
    /\ now < MaxOps
    /\ \E k \in EqDeleteKeywords :
          /\ STORAGE' = delete_filter(STORAGE, k).S
          /\ mirror' = delete_filter(mirror, k).S
          /\ last' = [name |-> "delete_filter",
                      success |-> delete_filter(STORAGE, k).success,
                      mirror_success |-> delete_filter(mirror, k).success]
    /\ now' = now + 1
    /\ UNCHANGED <<bc, km, tasks>>

EqAddUser ==
    /\ now < MaxOps
    /\ \E id \in UserIds, ud \in UserDatas :
          /\ STORAGE' = add_user(STORAGE, id, ud, now)
          /\ mirror' = add_user(mirror, id, ud, now)
    /\ now' = now + 1
    /\ last' = [name |-> "add_user"]
    /\ UNCHANGED <<bc, km, tasks>>

EqIncrementUserSearch ==
    /\ now < MaxOps
    /\ \E id \in UserIds :
          /\ STORAGE' = increment_user_search(STORAGE, id)
          /\ mirror' = increment_user_search(mirror, id)
    /\ now' = now + 1
    /\ last' = [name |-> "increment_user_search"]
    /\ UNCHANGED <<bc, km, tasks>>

EqRemoveUser ==
    /\ now < MaxOps
    /\ \E id \in UserIds :
          /\ STORAGE' = remove_user(STORAGE, id)
          /\ mirror' = remove_user(mirror, id)
    /\ now' = now + 1
    /\ last' = [name |-> "remove_user"]
    /\ UNCHANGED <<bc, km, tasks>>

EqAddGroup ==
    /\ now < MaxOps
    /\ \E id \in GroupIds, cd \in GroupDatas :
          /\ STORAGE' = add_group(STORAGE, id, cd, now)
          /\ mirror' = add_group(mirror, id, cd, now)
    /\ now' = now + 1
    /\ last' = [name |-> "add_group"]
    /\ UNCHANGED <<bc, km, tasks>>

EqIncrementStat ==
    /\ now < MaxOps
    /\ \E n \in StatNames :
          /\ STORAGE' = increment_stat(STORAGE, n)
          /\ mirror' = increment_stat(mirror, n)
    /\ now' = now + 1
    /\ last' = [name |-> "increment_stat"]
    /\ UNCHANGED <<bc, km, tasks>>

InitEquiv ==
    /\ STORAGE = NewStorage(FALSE, FALSE, NoFiles, NoCollections, 0)
    /\ mirror = NewStorage(TRUE, FALSE, NoFiles, NoCollections, 0)
    /\ now = 0
    /\ last = Idle
    /\ bc = NoBc
    /\ km = NoKm
    /\ tasks = <<>>

NextEquiv ==
    \/ EqAddFilter
    \/ EqDeleteFilter
    \/ EqAddUser
    \/ EqIncrementUserSearch
    \/ EqRemoveUser
    \/ EqAddGroup
    \/ EqIncrementStat

SpecEquiv == InitEquiv /\ [][NextEquiv]_vars

----------------------------------------------------------------------------
(* Process start: STORAGE = AdvancedStorage() *)

\* what a process can find at its start: MONGO_URI set or not, the server
\* answering or not, and the try block of __init__ raising or not. A server
\* that answers was reached through a URI that parses and resolves.
StartEnvs ==
    {e \in [mongo_uri : BOOLEAN, reachable : BOOLEAN, raises : BOOLEAN] :
        /\ e.reachable => (e.mongo_uri /\ ~e.raises)
        /\ e.raises => e.mongo_uri}

\* the process starts (again): a new AdvancedStorage over the files and the
\* collections the earlier processes left
Restart ==
    \E e \in StartEnvs :
        /\ STORAGE' = NewStorage(e.mongo_uri, e.raises, STORAGE.files, STORAGE.db, now)
        /\ last' = [name |-> "__init__", env |-> e]
        /\ UNCHANGED <<mirror, now, bc, km, tasks>>

\* start_command of the admin while the process runs
StAddUser ==
    /\ STORAGE' = add_user(STORAGE, AdminId, StartUserData, now)
    /\ last' = [name |-> "add_user", id |-> AdminId]
    /\ UNCHANGED <<mirror, now, bc, km, tasks>>

\* a matched search while the process runs
StIncrementStat ==
    /\ Counter(STORAGE, "total_searches") < MaxSearch
    /\ STORAGE' = increment_stat(STORAGE, "total_searches")
    /\ last' = [name |-> "increment_stat"]
    /\ UNCHANGED <<mirror, now, bc, km, tasks>>

InitStart ==
    /\ \E e \in StartEnvs :
          /\ STORAGE = NewStorage(e.mongo_uri, e.raises, NoFiles, NoCollections, 0)
          /\ last = [name |-> "__init__", env |-> e]
    /\ mirror = NewStorage(TRUE, FALSE, NoFiles, NoCollections, 0)
    /\ now = 0
    /\ bc = NoBc
    /\ km = NoKm
    /\ tasks = <<>>

NextStart == Tick \/ Restart \/ StAddUser \/ StIncrementStat

SpecStart == InitStart /\ [][NextStart]_vars

----------------------------------------------------------------------------
(* The matcher on one message while the calls to MongoDB may raise *)

NextOutage == KmReceive \/ KmReceiveFails \/ KmCopy \/ KmFinish

SpecOutage == InitMatch /\ [][NextOutage]_vars

----------------------------------------------------------------------------
(* The matcher paused between two replays (copy_message and the sleeps are  *)
(* awaited) while the handlers of the admin commands run                    *)

\* /addfilter handled while the trigger is paused, which it first is in its
\* first copy_message (the file variant does not suspend before); the clock
\* counts the commands handled during the pauses
AddFilterPaused ==
    \E args \in ArgLists, msg \in Messages :
        /\ km.pc = "replay"
        /\ km.sent # <<>>
        /\ now < MaxPaused
        /\ now' = now + 1
        /\ STORAGE' = add_filter_handler(STORAGE, args, msg, AdminId, now)
        /\ STORAGE' # STORAGE
        /\ last' = [name |-> "addfilter", args |-> args, msg |-> msg.id, reply |-> "-"]
        /\ UNCHANGED <<mirror, bc, km, tasks>>

\* /delfilter handled while the trigger is paused
DelFilterPaused ==
    \E args \in ArgLists :
        LET r == del_filter_handler(STORAGE, args)
        IN  /\ km.pc = "replay"
            /\ km.sent # <<>>
            /\ now < MaxPaused
            /\ now' = now + 1
            /\ STORAGE' = r.S
            /\ STORAGE' # STORAGE
            /\ last' = [name |-> "delfilter", args |-> args, msg |-> 0, reply |-> r.reply]
            /\ UNCHANGED <<mirror, bc, km, tasks>>

NextPause ==
    \/ AddFilterCmd \/ DelFilterCmd
    \/ KmReceive \/ KmCopy \/ KmFinish
    \/ AddFilterPaused \/ DelFilterPaused

SpecPause == InitFilter /\ [][NextPause]_vars

----------------------------------------------------------------------------
(* The bookkeeping of private messages of one sender, handled concurrently: *)
(* every await of a MongoDB call is a point where another handler runs; the *)
(* file variant of add_user and increment_user_search never suspends        *)

Sender == 1

\* a handler at its start
NewHandler == [pc |-> "add_user", search_count |-> 0]

\* the first find_one of line 190: 'if await self.get_user_info(user_id)'
ScFindFirst ==
    \E i \in DOMAIN tasks :
        /\ STORAGE.use_mongo
        /\ tasks[i].pc = "add_user"
        /\ tasks' = [tasks EXCEPT ![i].pc =
                        IF DOMAIN get_user_info(STORAGE, Sender) # {}
                        THEN "find_one" ELSE "update_one"]
        /\ last' = [name |-> "find_one", task |-> i]
        /\ UNCHANGED <<STORAGE, mirror, now, bc, km>>

\* the second one: '(await self.get_user_info(user_id)).get("search_count", 0)'
ScFindSecond ==
    \E i \in DOMAIN tasks :
        /\ tasks[i].pc = "find_one"
        /\ tasks' = [tasks EXCEPT
                        ![i].pc = "update_one",
                        ![i].search_count =
                            get(get_user_info(STORAGE, Sender), "search_count", 0)]
        /\ last' = [name |-> "find_one", task |-> i]
        /\ UNCHANGED <<STORAGE, mirror, now, bc, km>>

\* update_one with $set user_info, which holds the search_count that was read
ScUpdate ==
    \E i \in DOMAIN tasks :
        /\ tasks[i].pc = "update_one"
        /\ STORAGE' = AddUserMongo(STORAGE, Sender,
                                   [last_seen |-> now, username |-> "u",
                                    first_name |-> "f",
                                    search_count |-> tasks[i].search_count], now)
        /\ tasks' = [tasks EXCEPT ![i].pc = "increment_user_search"]
        /\ last' = [name |-> "update_one", task |-> i]
        /\ UNCHANGED <<mirror, now, bc, km>>

\* increment_user_search on MongoDB: one $inc
ScIncrement ==
    \E i \in DOMAIN tasks :
        /\ tasks[i].pc = "increment_user_search"
        /\ STORAGE' = increment_user_search(STORAGE, Sender)
        /\ tasks' = [tasks EXCEPT ![i].pc = "done"]
        /\ last' = [name |-> "increment_user_search", task |-> i]
        /\ UNCHANGED <<mirror, now, bc, km>>

\* the file variant: add_user and increment_user_search run without a suspension
ScBookkeepingFile ==
    \E i \in DOMAIN tasks :
        /\ ~STORAGE.use_mongo
        /\ tasks[i].pc = "add_user"
        /\ STORAGE' = Bookkeeping(STORAGE,
                                  [chat_type |-> "private", chat_id |-> Sender], 0, now)
        /\ tasks' = [tasks EXCEPT ![i].pc = "done"]
        /\ last' = [name |-> "increment_user_search", task |-> i]
        /\ UNCHANGED <<mirror, now, bc, km>>

InitSearch ==
    /\ \E m \in BOOLEAN, n \in 0..1 :
          STORAGE = Registered(NewStorage(m, FALSE, NoFiles, NoCollections, 0), n)
    /\ mirror = NewStorage(TRUE, FALSE, NoFiles, NoCollections, 0)
    /\ now = 0
    /\ last = Idle
    /\ bc = NoBc
    /\ km = NoKm
    /\ \E n \in 1..MaxHandlers : tasks = [i \in 1..n |-> NewHandler]

NextSearch ==
    ScFindFirst \/ ScFindSecond \/ ScUpdate \/ ScIncrement \/ ScBookkeepingFile

SpecSearch == InitSearch /\ [][NextSearch]_vars

----------------------------------------------------------------------------
(* The file variant under every mutating call, and restarts that load the   *)
(* files the calls have written                                             *)

\* each call is made at time now; mutating tells whether the call is one that
\* changes the in-memory state
DuAddFilter ==
    /\ now < MaxOps
    /\ \E k \in EqKeywords :
          STORAGE' = add_filter(STORAGE, k, [chat_id |-> 7, message_id |-> now + 1,
                                             added_by |-> AdminId], now)
    /\ now' = now + 1
    /\ last' = [name |-> "add_filter", mutating |-> TRUE]
    /\ UNCHANGED <<mirror, bc, km, tasks>>

DuDeleteFilter ==
    /\ now < MaxOps
    /\ \E k \in EqDeleteKeywords :
          /\ STORAGE' = delete_filter(STORAGE, k).S
          /\ last' = [name |-> "delete_filter",
                      mutating |-> delete_filter(STORAGE, k).success]
    /\ now' = now + 1
    /\ UNCHANGED <<mirror, bc, km, tasks>>

DuAddUser ==
    /\ now < MaxOps
    /\ \E id \in UserIds, ud \in UserDatas :
          STORAGE' = add_user(STORAGE, id, ud, now)
    /\ now' = now + 1
    /\ last' = [name |-> "add_user", mutating |-> TRUE]
    /\ UNCHANGED <<mirror, bc, km, tasks>>

DuIncrementUserSearch ==
    /\ now < MaxOps
    /\ \E id \in UserIds :
          /\ STORAGE' = increment_user_search(STORAGE, id)
          /\ last' = [name |-> "increment_user_search",
                      mutating |-> str(id) \in UserIdSet(STORAGE)]
    /\ now' = now + 1
    /\ UNCHANGED <<mirror, bc, km, tasks>>

DuRemoveUser ==
    /\ now < MaxOps
    /\ \E id \in UserIds :
          /\ STORAGE' = remove_user(STORAGE, id)
          /\ last' = [name |-> "remove_user",
                      mutating |-> str(id) \in UserIdSet(STORAGE)]
    /\ now' = now + 1
    /\ UNCHANGED <<mirror, bc, km, tasks>>

DuAddGroup ==
    /\ now < MaxOps
    /\ \E id \in GroupIds, cd \in GroupDatas :
          STORAGE' = add_group(STORAGE, id, cd, now)
    /\ now' = now + 1
    /\ last' = [name |-> "add_group", mutating |-> TRUE]
    /\ UNCHANGED <<mirror, bc, km, tasks>>

DuIncrementStat ==
    /\ now < MaxOps
    /\ \E n \in StatNames : STORAGE' = increment_stat(STORAGE, n)
    /\ now' = now + 1
    /\ last' = [name |-> "increment_stat", mutating |-> TRUE]
    /\ UNCHANGED <<mirror, bc, km, tasks>>

\* the process is started again without MONGO_URI
DuRestart ==
    /\ now < MaxOps
    /\ STORAGE' = NewStorage(FALSE, FALSE, STORAGE.files, STORAGE.db, now)
    /\ now' = now + 1
    /\ last' = [name |-> "__init__", mutating |-> FALSE]
    /\ UNCHANGED <<mirror, bc, km, tasks>>

InitDurable ==
    /\ STORAGE = NewStorage(FALSE, FALSE, NoFiles, NoCollections, 0)
    /\ mirror = NewStorage(TRUE, FALSE, NoFiles, NoCollections, 0)
    /\ now = 0
    /\ last = Idle
    /\ bc = NoBc
    /\ km = NoKm
    /\ tasks = <<>>

NextDurable ==
    \/ DuAddFilter \/ DuDeleteFilter
    \/ DuAddUser \/ DuIncrementUserSearch \/ DuRemoveUser
    \/ DuAddGroup \/ DuIncrementStat
    \/ DuRestart

SpecDurable == InitDurable /\ [][NextDurable]_vars

----------------------------------------------------------------------------
(* The properties checked *)

\* C3: a call of add_user for an id that is already registered leaves the
\* stored join_date and search_count of that user as they were, on either variant.
C3_IdempotentRegistration ==
    [][(last'.name = "add_user" /\ last'.known /\ STORAGE' # STORAGE) =>
          /\ Seen(STORAGE', last'.id).join_date = Seen(STORAGE, last'.id).join_date
          /\ Seen(STORAGE', last'.id).search_count = Seen(STORAGE, last'.id).search_count]_vars

\* the canonical form of a keyword: surrounding whitespace trimmed, lower case
Canon(k) == lower(strip(k))

\* the keyword a command was given, as typed
Typed(l) == join(l.args)

\* C4: /addfilter and /delfilter address the entry of the trimmed, lower-cased
\* keyword whatever case and surrounding whitespace the keyword was typed with:
\* an add leaves its payload at the end of that entry, a delete leaves no such
\* entry, and no stored keyword differs from its canonical form (so no two entries
\* differ only by case or surrounding whitespace).
C4_KeywordCanonicalization ==
    /\ \A k \in FilterKeys(STORAGE) : k = Canon(k)
    /\ (last.name = "addfilter" /\ last.args # <<>>) =>
          /\ Canon(Typed(last)) \in FilterKeys(STORAGE)
          /\ LET files == FilterFiles(STORAGE, Canon(Typed(last)))
             IN  files[Len(files)].message_id = last.msg
    /\ (last.name = "delfilter" /\ last.args # <<>>) =>
          Canon(Typed(last)) \notin FilterKeys(STORAGE)

\* C4: a keyword typed in capitals between blanks reached the entry that an
\* earlier add had made under the plain keyword: a second payload went to it, or
\* the delete found it.
C4_Witness ==
    /\ last.name \in {"addfilter", "delfilter"}
    /\ last.args = <<<<" ", "A", " ">>>>
    /\ \/ /\ last.name = "addfilter"
          /\ Len(FilterFiles(STORAGE, <<"a">>)) = 2
       \/ /\ last.name = "delfilter"
          /\ last.reply = "deleted"

\* an alphanumeric character
IsAlnum(c) == c \in Letters \cup DigitChars

\* the occurrence of keyword at i is part of a larger alphanumeric token: the
\* token that the keyword begins or ends with goes on beyond the occurrence
InsideLargerToken(keyword, text, i) ==
    \/ IsAlnum(keyword[1]) /\ i > 1 /\ IsAlnum(text[i - 1])
    \/ /\ IsAlnum(keyword[Len(keyword)])
       /\ i + Len(keyword) <= Len(text)
       /\ IsAlnum(text[i + Len(keyword)])

\* the occurrence of keyword at i stands between blanks or the ends of the text
BetweenBlanks(keyword, text, i) ==
    /\ i = 1 \/ text[i - 1] = " "
    /\ i + Len(keyword) > Len(text) \/ text[i + Len(keyword)] = " "

Fired(keyword) == \E i \in DOMAIN km.matched_keywords : km.matched_keywords[i] = keyword

\* C5: a stored keyword fires on a message only if it occurs in the lower-cased
\* text outside any larger alphanumeric token, so never when all its occurrences
\* are parts of larger tokens; an alphanumeric keyword that stands between blanks
\* (or the ends of the text) does fire.
C5_WordBoundaryMatching ==
    km.pc # "off" =>
        \A keyword \in FilterKeys(STORAGE) \ {<<>>} :
            LET text == lower(km.message.text)
            IN  /\ Fired(keyword) =>
                    \E i \in 1..Len(text) :
                        OccursAt(keyword, text, i) /\ ~InsideLargerToken(keyword, text, i)
                /\ ((\A j \in DOMAIN keyword : IsAlnum(keyword[j])) /\
                    (\E i \in 1..Len(text) :
                        OccursAt(keyword, text, i) /\ BetweenBlanks(keyword, text, i)))
                   => Fired(keyword)

\* C5: the keyword "a" is stored, the text "A2 " holds it only as the start of the
\* token "a2", and the match fired nothing.
C5_Witness ==
    /\ km.pc = "done"
    /\ FilterKeys(STORAGE) = {<<"a">>}
    /\ km.message.text = <<"A", "2", " ">>
    /\ km.matched_keywords = <<>>

\* the (chat_id, message_id) pairs of a payload list
Refs(files) == [i \in DOMAIN files |-> <<files[i].chat_id, files[i].message_id>>]

\* the copy_message calls made for the j-th fired keyword, in the order made
Replayed(j) ==
    LET calls == SelectSeq(km.sent, LAMBDA c : c.keyword = j)
    IN  [i \in DOMAIN calls |-> <<calls[i].chat_id, calls[i].message_id>>]

IsPrefix(a, b) == Len(a) <= Len(b) /\ a = SubSeq(b, 1, Len(a))

\* an /addfilter step appends its payload to the list of its keyword and changes no
\* other list; a /delfilter step changes no list of another keyword
AppendsOnly ==
    LET k == Canon(join(last'.args))
        old == IF k \in FilterKeys(STORAGE) THEN FilterFiles(STORAGE, k) ELSE <<>>
    IN  /\ (last'.name = "addfilter" /\ last'.args # <<>>) =>
              /\ FilterKeys(STORAGE') = FilterKeys(STORAGE) \cup {k}
              /\ Len(FilterFiles(STORAGE', k)) = Len(old) + 1
              /\ SubSeq(FilterFiles(STORAGE', k), 1, Len(old)) = old
              /\ FilterFiles(STORAGE', k)[Len(old) + 1].message_id = last'.msg
              /\ \A k2 \in FilterKeys(STORAGE) \ {k} :
                    FilterFiles(STORAGE', k2) = FilterFiles(STORAGE, k2)
        /\ (last'.name = "delfilter" /\ last'.args # <<>>) =>
              /\ FilterKeys(STORAGE') = FilterKeys(STORAGE) \ {k}
              /\ \A k2 \in FilterKeys(STORAGE') :
                    FilterFiles(STORAGE', k2) = FilterFiles(STORAGE, k2)

\* the replay of a trigger follows the stored lists: what was sent for a fired
\* keyword is the beginning of its list, and all of it (up to the cap) at the end
ReplaysInOrder ==
    km.pc \in {"replay", "done"} =>
        \A j \in DOMAIN km.matched_keywords :
            LET stored == Refs(FilterFiles(STORAGE, km.matched_keywords[j]))
            IN  /\ IsPrefix(Replayed(j), stored)
                /\ (km.pc = "done" /\ j <= 5 /\ Len(stored) <= 10) => Replayed(j) = stored

\* C6: the payload list of a keyword is the payloads added to it since it was
\* created (or last deleted), in the order of the adds: an add appends and leaves
\* every earlier payload in place, and a trigger replays the list in that order.
C6_AppendOnlyPayloadOrder ==
    /\ [][(last'.name \in {"addfilter", "delfilter"} /\ STORAGE' # STORAGE)
            => AppendsOnly]_vars
    /\ []ReplaysInOrder

\* C6: the messages 3, 1, 2 were added to the keyword "a" in this order and a
\* trigger has replayed them in this order.
C6_Witness ==
    /\ km.pc = "done"
    /\ km.matched_keywords = <<<<"a">>>>
    /\ Replayed(1) = <<<<7, 3>>, <<7, 1>>, <<7, 2>>>>

\* the replay of the first nk fired keywords with the first nf payloads of each
RECURSIVE ReplayOf(_, _, _)
ReplayOf(matched, nk, nf) ==
    IF nk = 0 THEN <<>>
    ELSE ReplayOf(matched, nk - 1, nf) \o
         LET files == FilterFiles(STORAGE, matched[nk])
         IN  [i \in 1..Min(Len(files), nf) |->
                 [keyword |-> nk, chat_id |-> files[i].chat_id,
                  message_id |-> files[i].message_id]]

\* C7: for one message, copy_message is attempted for at most 5 fired keywords (the
\* first 5 found) and at most 10 payloads of each (the oldest 10); 6 fired keywords
\* of 12 payloads each give exactly 50 attempts.
C7_FanOutCaps ==
    /\ km.pc \in {"replay", "done"} =>
          IsPrefix(km.sent, ReplayOf(km.matched_keywords, Min(Len(km.matched_keywords), 5), 10))
    /\ km.pc = "done" =>
          /\ km.sent = ReplayOf(km.matched_keywords, Min(Len(km.matched_keywords), 5), 10)
          /\ (/\ Len(km.matched_keywords) = 6
              /\ \A j \in 1..6 : Len(FilterFiles(STORAGE, km.matched_keywords[j])) = 12)
             => Len(km.sent) = 50

\* C7: 6 keywords of 12 payloads each fired, and the handler returned after 50 attempts.
C7_Witness ==
    /\ km.pc = "done"
    /\ Len(km.matched_keywords) = 6
    /\ \A j \in 1..6 : Len(FilterFiles(STORAGE, km.matched_keywords[j])) = 12
    /\ Len(km.sent) = 50

\* the targets of the run whose delivery was answered with outcome o
Answered(o) ==
    {bc.attempts[i].target : i \in {j \in DOMAIN bc.attempts : bc.attempts[j].outcome = o}}

\* a run that has finished, whose targets were answered only with delivered or
\* unreachable, and during which no other handler changed the Directory
QuietRun ==
    /\ bc.pc \in {"completed", "raised"}
    /\ "attempts" \in DOMAIN bc
    /\ bc.others = {}
    /\ \A i \in DOMAIN bc.attempts : bc.attempts[i].outcome \in {"ok", "unreachable"}

\* C1: a broadcast over a snapshot of N users, without rate limit and without
\* concurrent Directory change, in which the targets of U are unreachable and
\* the others succeed, ends with success = N - |U|, failed = removed = |U| and
\* a Directory holding exactly the snapshot users outside U.
C1_BroadcastClassification ==
    QuietRun =>
        LET N == Len(bc.user_ids_str)
            U == Answered("unreachable")
        IN  /\ bc.success_count = N - Cardinality(U)
            /\ bc.failed_count = Cardinality(U)
            /\ bc.removed_count = Cardinality(U)
            /\ UserIdSet(STORAGE) = SeqToSet(bc.user_ids_str) \ U

C1_Witness ==
    /\ QuietRun
    /\ bc.pc = "completed"
    /\ Len(bc.user_ids_str) = MaxUsers
    /\ Cardinality(Answered("unreachable")) = 2
    /\ bc.attempts[1].outcome = "ok"

\* C2: the attempt that follows a rate-limited attempt goes to the same target,
\* and a finished run has given every target of its snapshot an outcome other
\* than the rate limit.
C2_RateLimitResumption ==
    ("attempts" \in DOMAIN bc) =>
        /\ \A i \in DOMAIN bc.attempts :
              (bc.attempts[i].outcome = "flood" /\ i < Len(bc.attempts)) =>
                  bc.attempts[i + 1].target = bc.attempts[i].target
        /\ bc.pc = "completed" =>
              \A k \in DOMAIN bc.user_ids_str :
                  \E i \in DOMAIN bc.attempts :
                      /\ bc.attempts[i].target = bc.user_ids_str[k]
                      /\ bc.attempts[i].outcome # "flood"

AllDone == tasks # <<>> /\ \A i \in DOMAIN tasks : tasks[i].pc = "done"

\* the completed increment_stat(n) calls
DoneIncrements(n) ==
    {i \in DOMAIN tasks : /\ tasks[i].pc = "done"
                          /\ tasks[i].call.op = "increment_stat"
                          /\ tasks[i].call.stat_name = n}

\* the value of counter n when the updates arrived
Base(n) == get(tasks[1].seen, n, 0)

\* C8: on the MongoDB variant, once N concurrent increment_stat calls have all
\* completed, whatever their interleaving, the counter has grown by exactly N.
C8_MongoCounterAtomic ==
    (STORAGE.use_mongo /\ AllDone) =>
        \A n \in StatNames :
            Counter(STORAGE, n) = Base(n) + Cardinality(DoneIncrements(n))

C8_Witness ==
    /\ STORAGE.use_mongo
    /\ AllDone
    /\ Cardinality(DoneIncrements("total_searches")) = MaxTasks
    /\ tasks[1].pending = MaxTasks - 1
    /\ Base("total_searches") = 1

\* the payloads stored under the keyword of the add_filter tasks, in memory and
\* in the filters file
StoredIds(filters) ==
    IF DictHas(filters, <<"a">>)
    THEN {DictGet(filters, <<"a">>)[j].message_id :
              j \in DOMAIN DictGet(filters, <<"a">>)}
    ELSE {}

\* a completed file-variant call whose effect is missing in memory or on disk
Lost ==
    \/ \E n \in StatNames :
          \/ get(STORAGE.local_stats, n, 0) < Base(n) + Cardinality(DoneIncrements(n))
          \/ /\ DoneIncrements(n) # {}
             /\ get(STORAGE.files.stats, n, 0) < Base(n) + Cardinality(DoneIncrements(n))
    \/ \E i \in DOMAIN tasks :
          /\ tasks[i].pc = "done"
          /\ tasks[i].call.op = "add_filter"
          /\ \/ i \notin StoredIds(STORAGE.local_filters)
             \/ i \notin StoredIds(STORAGE.files.filters)

C10_BackendEquivalence ==
    /\ Observed(STORAGE) = Observed(mirror)
    /\ last.name = "delete_filter" => last.success = last.mirror_success

\* the in-memory state of a storage that has loaded the files
LoadedFrom(S, files) ==
    /\ S.local_filters = files.filters
    /\ S.local_users = files.users
    /\ S.local_groups = files.groups
    /\ \A n \in DOMAIN files.stats : S.local_stats[n] = files.stats[n]

\* C11: a storage constructed with MONGO_URI set and the server not answering
\* uses the file variant, with the local files loaded; the MongoDB variant is
\* chosen only when MONGO_URI is set and the server answers.
C11_StartupFallback ==
    last.name = "__init__" =>
        /\ (last.env.mongo_uri /\ ~last.env.reachable) =>
              (~STORAGE.use_mongo /\ (STORAGE.files.exists => LoadedFrom(STORAGE, STORAGE.files)))
        /\ STORAGE.use_mongo => (last.env.mongo_uri /\ last.env.reachable)

\* C12: /delfilter answers "deleted" exactly when an entry of the canonical
\* keyword existed just before; afterwards there is no such entry and the
\* entries of all other keywords are as they were; a delete of a keyword that
\* has no entry answers "not found" and leaves the whole storage unchanged.
C12_DeleteFilterResult ==
    [][(last'.name = "delfilter" /\ last'.args # <<>>) =>
          LET k == Canon(Typed(last'))
              existed == k \in FilterKeys(STORAGE)
          IN  /\ (last'.reply = "deleted") <=> existed
              /\ (last'.reply = "not found") <=> ~existed
              /\ k \notin FilterKeys(STORAGE')
              /\ FilterKeys(STORAGE') = FilterKeys(STORAGE) \ {k}
              /\ \A o \in FilterKeys(STORAGE') :
                    FilterFiles(STORAGE', o) = FilterFiles(STORAGE, o)
              /\ ~existed => STORAGE' = STORAGE]_vars

\* C12: a delete typed in capitals between blanks removed the entry of the
\* plain keyword while another keyword kept its entry.
C12_Witness ==
    /\ last.name = "delfilter"
    /\ last.args = <<<<" ", "A", " ">>>>
    /\ last.reply = "deleted"
    /\ FilterKeys(STORAGE) # {}

\* a step of the loop of the running broadcast whose copy was answered with o
Delivered(o) ==
    /\ bc.pc = "running"
    /\ "attempts" \in DOMAIN bc'
    /\ Len(bc'.attempts) = Len(bc.attempts) + 1
    /\ bc'.attempts[Len(bc'.attempts)].outcome = o

\* the target of the attempt made in this step
Target == bc'.attempts[Len(bc'.attempts)].target

\* C13: a delivery that fails with an error that is neither the rate limit nor
\* unreachable adds exactly 1 to failed, leaves success and removed as they
\* were, keeps the target's user record, and the run goes on with the next target.
C13_BroadcastTransientError ==
    [][Delivered("error") =>
          /\ bc'.failed_count = bc.failed_count + 1
          /\ bc'.success_count = bc.success_count
          /\ bc'.removed_count = bc.removed_count
          /\ UserIdSet(STORAGE') = UserIdSet(STORAGE)
          /\ get_user_info(STORAGE', int(Target)) = get_user_info(STORAGE, int(Target))
          /\ bc'.pc = "running"
          /\ bc'.index = bc.index + 1
          /\ bc'.user_ids_str = bc.user_ids_str]_vars

\* C13: a run went on after an error on its first target, delivered to the
\* second, and the first target is still registered.
C13_Witness ==
    /\ bc.pc = "completed"
    /\ Len(bc.attempts) = MaxUsers
    /\ bc.attempts[1].outcome = "error"
    /\ bc.attempts[2].outcome = "ok"
    /\ bc.failed_count = 1
    /\ bc.success_count = MaxUsers - 1
    /\ bc.attempts[1].target \in UserIdSet(STORAGE)

\* C14: a completed broadcast has accounted for every target of its snapshot
\* exactly once: success + failed is the size of the snapshot and removed is at
\* most failed, whatever the targets answered, the rate limit included.
C14_BookkeepingAtCompletion ==
    bc.pc = "completed" =>
        /\ bc.success_count + bc.failed_count = Len(bc.user_ids_str)
        /\ bc.removed_count <= bc.failed_count

\* the call that reports the result returns
ReportReturns == last.name = "report" => last.report = "ok"

\* C15: provided the awaited calls return, a broadcast that is running reaches
\* Completed with every target of its snapshot processed, whatever the targets
\* answer; no answer of a target ends the loop early.
C15_BroadcastCompletion ==
    []ReportReturns =>
        ((bc.pc = "running") ~>
            (bc.pc = "completed" /\ Len(bc.attempts) = Len(bc.user_ids_str)))

\* C15: a run completed although its targets answered with an error, with the
\* rate limit and with unreachable.
C15_Witness ==
    /\ bc.pc = "completed"
    /\ Len(bc.attempts) = MaxUsers
    /\ bc.attempts[1].outcome = "error"
    /\ bc.attempts[2].outcome = "flood"
    /\ bc.attempts[3].outcome = "unreachable"

\* C16: a loop step answered with the rate limit leaves failed and removed as
\* they were and removes no user record.
C16_RateLimitIsNoFailure ==
    [][Delivered("flood") =>
          /\ bc'.failed_count = bc.failed_count
          /\ bc'.removed_count = bc.removed_count
          /\ UserIdSet(STORAGE') = UserIdSet(STORAGE)
          /\ get_user_info(STORAGE', int(Target)) = get_user_info(STORAGE, int(Target))]_vars

\* C16: a completed run whose only target answered with the rate limit has
\* counted no failure and the target is still registered.
C16_Witness ==
    /\ bc.pc = "completed"
    /\ Len(bc.attempts) = 1
    /\ bc.attempts[1].outcome = "flood"
    /\ bc.failed_count = 0
    /\ bc.removed_count = 0
    /\ bc.attempts[1].target \in UserIdSet(STORAGE)

\* a storage without its user records, in memory, in the files and in the
\* collections
WithoutUsers(S) ==
    [S EXCEPT !.local_users = EmptyDict, !.files.users = EmptyDict,
              !.db.users = EmptyDict]

\* C17: a loop step of a broadcast changes the storage only when its delivery
\* was answered with unreachable, and then only by removing the record of its
\* target: filters, groups, counters and the records of all other users stay as
\* they were, in memory and in what is persisted.
C17_OnlyUnreachableMutates ==
    [][(\E o \in CopyOutcomes : Delivered(o)) =>
          /\ WithoutUsers(STORAGE') = WithoutUsers(STORAGE)
          /\ \A id \in UserIdSet(STORAGE) \ {Target} :
                /\ id \in UserIdSet(STORAGE')
                /\ get_user_info(STORAGE', int(id)) = get_user_info(STORAGE, int(id))
          /\ UserIdSet(STORAGE') \subseteq UserIdSet(STORAGE)
          /\ (Target \in UserIdSet(STORAGE) /\ Target \notin UserIdSet(STORAGE'))
                => Delivered("unreachable")]_vars

\* C17: a completed run over a store with a filter, a group and a counted
\* search removed its unreachable target and nothing else.
C17_Witness ==
    /\ bc.pc = "completed"
    /\ Len(bc.attempts) = MaxUsers
    /\ bc.attempts[1].outcome = "error"
    /\ bc.attempts[2].outcome = "unreachable"
    /\ bc.attempts[3].outcome = "flood"
    /\ UserIdSet(STORAGE) = {"1", "3"}
    /\ FilterKeys(STORAGE) = {<<"a">>}
    /\ GroupIdSet(STORAGE) = {"9"}
    /\ Counter(STORAGE, "total_searches") = 1

\* the users that another handler registered after the snapshot was taken
Newcomers == bc.others \ SeqToSet(bc.user_ids_str)

\* the number of attempts of the run answered with an outcome of the set os
Count(os) == Cardinality({i \in DOMAIN bc.attempts : bc.attempts[i].outcome \in os})

\* the snapshot decides the attempts and the counters: attempt i went to entry i
\* of the snapshot, and the counters count these attempts only
SnapshotDecides ==
    ("attempts" \in DOMAIN bc) =>
        /\ Len(bc.attempts) <= Len(bc.user_ids_str)
        /\ \A i \in DOMAIN bc.attempts : bc.attempts[i].target = bc.user_ids_str[i]
        /\ bc.success_count = Count({"ok"})
        /\ bc.failed_count = Count({"unreachable", "error"})
        /\ bc.removed_count = Count({"unreachable"})
        /\ \A id \in Newcomers :
              /\ \A i \in DOMAIN bc.attempts : bc.attempts[i].target # id
              /\ id \in UserIdSet(STORAGE)

\* C18: the population is read once, when the run starts: the snapshot never
\* changes afterwards, and a user registered after it gets no attempt from the
\* run, is counted in none of its counters and is still registered when the
\* run completes.
C18_BroadcastSnapshot ==
    /\ []SnapshotDecides
    /\ [][("user_ids_str" \in DOMAIN bc) =>
             /\ "user_ids_str" \in DOMAIN bc'
             /\ bc'.user_ids_str = bc.user_ids_str]_vars

\* C18: a run completed over its snapshot while a user who registered during
\* the run is in the Directory, after a removal had shortened the stored list.
C18_Witness ==
    /\ bc.pc = "completed"
    /\ Len(bc.user_ids_str) = MaxUsers
    /\ Newcomers = {str(MaxUsers + 1)}
    /\ bc.attempts[1].outcome = "unreachable"
    /\ str(MaxUsers + 1) \in UserIdSet(STORAGE)
    /\ bc.success_count = MaxUsers - 1

\* a step in which the run passes the next entry of its snapshot
Reached ==
    /\ bc.pc = "running"
    /\ "index" \in DOMAIN bc'
    /\ bc'.index = bc.index + 1

\* C19: when the run reaches a target whose record was removed after the
\* snapshot, it passes it without a delivery attempt and without any effect:
\* no counter changes, nothing is raised, the Directory stays as it is.
C19_RemovedTargetSkipped ==
    [][(Reached /\ bc.user_ids_str[bc.index + 1] \notin UserIdSet(STORAGE)) =>
          /\ bc'.attempts = bc.attempts
          /\ bc'.success_count = bc.success_count
          /\ bc'.failed_count = bc.failed_count
          /\ bc'.removed_count = bc.removed_count
          /\ bc'.pc = "running"
          /\ UserIdSet(STORAGE') = UserIdSet(STORAGE)]_vars

\* the place of a target in the snapshot
Pos(id) == CHOOSE i \in DOMAIN bc.user_ids_str : bc.user_ids_str[i] = id

\* the attempts made so far went through the snapshot in its order, and every
\* one of them has been classified and counted
AttemptsInOrder ==
    ("attempts" \in DOMAIN bc) =>
        /\ \A a, b \in DOMAIN bc.attempts :
              a < b => Pos(bc.attempts[a].target) < Pos(bc.attempts[b].target)
        /\ bc.index = Len(bc.attempts)
        /\ bc.success_count + bc.failed_count + Count({"flood"}) = bc.index

\* C20: the attempts of a run follow the order of its snapshot: when target j
\* is attempted every target before it in the snapshot has been attempted and
\* its outcome classified and counted, also when an earlier target answered with
\* the rate limit.
C20_SnapshotOrder ==
    /\ []AttemptsInOrder
    /\ [][(\E o \in CopyOutcomes : Delivered(o)) =>
             /\ Pos(Target) = bc.index + 1
             /\ \A i \in 1..(Pos(Target) - 1) :
                   \E a \in DOMAIN bc.attempts :
                       bc.attempts[a].target = bc.user_ids_str[i]]_vars

\* C20: a run went through its whole snapshot in order although its first
\* target answered with the rate limit.
C20_Witness ==
    /\ bc.pc = "completed"
    /\ Len(bc.attempts) = MaxUsers
    /\ bc.attempts[1].outcome = "flood"
    /\ \A i \in DOMAIN bc.attempts : bc.attempts[i].target = str(i)
    /\ bc.success_count = MaxUsers - 1

\* C21: total_broadcasts changes only in the completion step of a run, which
\* comes after the last target and adds exactly 1; a run over an empty
\* population completes as well, with all three counters 0, success rate 0 and
\* throughput 0, and has added its 1.
C21_BroadcastCounter ==
    /\ [][Counter(STORAGE', "total_broadcasts") # Counter(STORAGE, "total_broadcasts") =>
             /\ bc.pc = "running"
             /\ bc.index = Len(bc.user_ids_str)
             /\ Len(bc.attempts) = Len(bc.user_ids_str)
             /\ bc'.pc \in {"completed", "raised"}
             /\ Counter(STORAGE', "total_broadcasts") =
                    Counter(STORAGE, "total_broadcasts") + 1]_vars
    /\ [](bc.pc = "completed" => Counter(STORAGE, "total_broadcasts") = 1)
    /\ []((bc.pc = "running" /\ bc.index < Len(bc.user_ids_str)) =>
              Counter(STORAGE, "total_broadcasts") = 0)
    /\ []((last.name = "report" /\ last.report = "ok" /\ bc.user_ids_str = <<>>) =>
              /\ bc.pc = "completed"
              /\ bc.success_count = 0 /\ bc.failed_count = 0 /\ bc.removed_count = 0
              /\ last.success_rate = 0 /\ last.avg_speed = 0
              /\ Counter(STORAGE, "total_broadcasts") = 1)

\* C21: a run over an empty population has completed and counted itself.
C21_Witness ==
    /\ bc.pc = "completed"
    /\ bc.user_ids_str = <<>>
    /\ last.success_rate = 0
    /\ Counter(STORAGE, "total_broadcasts") = 1

\* C22: a broadcast invoked without a replied message goes to Aborted and never
\* to Running: the invocation changes nothing in the store, and from Aborted
\* no delivery is attempted, no user is removed and total_broadcasts keeps its
\* value.
C22_BroadcastAborted ==
    /\ [][(last'.name = "broadcast" /\ bc.pc = "off" /\ bc'.pc # "off"
              /\ ~last'.replied_msg) =>
             /\ bc'.pc = "aborted"
             /\ STORAGE' = STORAGE]_vars
    /\ [][bc.pc = "aborted" =>
             /\ bc' = bc
             /\ get_all_users(STORAGE') = get_all_users(STORAGE)
             /\ Counter(STORAGE', "total_broadcasts") =
                    Counter(STORAGE, "total_broadcasts")]_vars
    /\ [](bc.pc = "aborted" => Counter(STORAGE, "total_broadcasts") = 0)

\* C22: an invocation without a replied message, over a population that has
\* targets, has aborted.
C22_Witness ==
    /\ bc.pc = "aborted"
    /\ last.name = "broadcast"
    /\ ~last.replied_msg
    /\ get_all_users(STORAGE) # <<>>

\* C23: a failure of a text-reporting call of a broadcast is swallowed: no
\* exception leaves the handler, and an invocation that has a replied message
\* goes on to the loop whatever the first status message answers.
C23_ReportingFailuresSwallowed ==
    /\ [](bc.pc # "raised")
    /\ [][(last'.name = "broadcast" /\ bc.pc = "off" /\ bc'.pc # "off"
              /\ last'.replied_msg) => bc'.pc = "running"]_vars

\* C24: processing an inbound message adds 1 to total_searches if at least one
\* keyword fired, however many fired, and nothing if none fired; the replay of
\* the payloads leaves the counter alone.
C24_SearchCountedOnce ==
    /\ [][(km.pc = "off" /\ km'.pc # "off") =>
             Counter(STORAGE', "total_searches") =
                 Counter(STORAGE, "total_searches") +
                 (IF km'.matched_keywords # <<>> THEN 1 ELSE 0)]_vars
    /\ [][km.pc = "replay" =>
             Counter(STORAGE', "total_searches") =
                 Counter(STORAGE, "total_searches")]_vars

\* C24: a message on which two keywords fired has been answered with at least
\* two payloads, and the counter stands at 1.
C24_Witness ==
    /\ km.pc = "done"
    /\ Len(km.matched_keywords) >= 2
    /\ Len(km.sent) >= 2
    /\ Counter(STORAGE, "total_searches") = 1

\* files_to_send[:10] of the j-th fired keyword, as stored
StoredFor(j) == FilesToSend(FilterFiles(STORAGE, km.matched_keywords[j]))

\* C25: when copy_message for a payload is answered with FloodWait, the loop
\* pauses and its next step attempts the same payload of the same keyword
\* again: the replay neither ends nor moves on to another payload.
C25_MatcherRateLimitRetry ==
    [][(km.pc = "replay" /\ last.name = "copy_message" /\ last.outcome = "FloodWait"
           /\ km' # km) =>
          /\ last'.name = "copy_message"
          /\ km'.ki = km.ki
          /\ km'.fi = km.fi
          /\ Len(km'.sent) = Len(km.sent) + 1]_vars

\* the payloads still to attempt after position (ki, fi), keyword j onwards
RECURSIVE PayloadsFrom(_)
PayloadsFrom(j) ==
    IF j > Len(KeywordsToSend(km.matched_keywords)) THEN 0
    ELSE Len(StoredFor(j)) + PayloadsFrom(j + 1)

Remaining ==
    (IF km.ki = 0 THEN 0 ELSE Len(StoredFor(km.ki)) - km.fi) + PayloadsFrom(km.ki + 1)

\* C26: a copy_message that fails with an error other than FloodWait is one
\* attempt like any other: the loop stays in the replay with one payload less
\* to go, and the handler returns only when no payload of the fired keywords
\* (within the caps) remains.
C26_MatcherErrorIsolation ==
    /\ [][(km.pc = "replay" /\ last'.name = "copy_message" /\ last'.outcome = "error") =>
             /\ km'.pc = "replay"
             /\ Remaining' = Remaining - 1
             /\ NextReplay(km', STORAGE').more <=> Remaining' > 0]_vars
    /\ [](km.pc = "done" => Remaining = 0)
    /\ [](km.pc \in {"replay", "done"} => Len(km.sent) + Remaining = PayloadsFrom(1))

\* C26: the first payload of the first of two fired keywords failed with an
\* error, and payloads of this keyword and of the next remain to be attempted.
C26_Witness ==
    /\ km.pc = "replay"
    /\ last.name = "copy_message"
    /\ last.outcome = "error"
    /\ km.ki = 1
    /\ km.fi = 1
    /\ Len(StoredFor(1)) >= 2
    /\ Len(km.matched_keywords) >= 2
    /\ Remaining >= 3

\* the place of a keyword in the iteration over all_filters.keys()
KeyPos(keyword) ==
    LET keys == DictKeys(get_all_filters(STORAGE))
    IN  CHOOSE i \in DOMAIN keys : keys[i] = keyword

\* C27: the fired keywords stand in the order in which the iteration over the
\* filters found them, and the attempts of one trigger are made one after the
\* other: each step makes one attempt, for the payload that follows in the
\* list of the same keyword (oldest first), or, when that list is through, for
\* the oldest payload of the next fired keyword that has payloads.
C27_ReplayOrder ==
    /\ [](km.pc \in {"replay", "done"} =>
             \A i, j \in DOMAIN km.matched_keywords :
                 i < j => KeyPos(km.matched_keywords[i]) < KeyPos(km.matched_keywords[j]))
    /\ [][(km.pc = "replay" /\ last'.name = "copy_message") =>
             /\ Len(km'.sent) = Len(km.sent) + 1
             /\ SubSeq(km'.sent, 1, Len(km.sent)) = km.sent
             /\ LET c == km'.sent[Len(km'.sent)]
                    stored == Refs(FilterFiles(STORAGE, km.matched_keywords[km'.ki]))
                IN  /\ c.keyword = km'.ki
                    /\ <<c.chat_id, c.message_id>> = stored[km'.fi]
             /\ \/ km'.ki = km.ki /\ km'.fi = km.fi + 1
                \/ /\ km'.ki > km.ki
                   /\ km'.fi = 1
                   /\ km.ki > 0 => km.fi = Len(StoredFor(km.ki))
                   /\ \A j \in (km.ki + 1)..(km'.ki - 1) : StoredFor(j) = <<>>]_vars

\* C27: two keywords of two payloads or more fired, and all their payloads
\* have been attempted.
C27_Witness ==
    /\ km.pc = "done"
    /\ Len(km.matched_keywords) >= 2
    /\ Len(StoredFor(1)) >= 2
    /\ Len(StoredFor(2)) >= 2
    /\ Len(km.sent) >= 4

\* C28: when a storage call of the bookkeeping of a message raises, the message
\* is matched and answered all the same: the handler is in its replay or has
\* returned from it, and every stored keyword that stands in the text between
\* blanks has fired.
C28_BookkeepingNeverBlocks ==
    last.name = "storage error" =>
        /\ km.pc \in {"replay", "done"}
        /\ \A keyword \in FilterKeys(STORAGE) \ {<<>>} :
               SearchWord(keyword, lower(km.message.text)) => Fired(keyword)

\* the replay of the fired keywords 1..nk out of the dict d
RECURSIVE ReplayFrom(_, _, _)
ReplayFrom(d, matched, nk) ==
    IF nk = 0 THEN <<>>
    ELSE ReplayFrom(d, matched, nk - 1) \o
         LET files == FilesToSend(IF DictHas(d, matched[nk])
                                  THEN DictGet(d, matched[nk]) ELSE <<>>)
         IN  [i \in DOMAIN files |->
                 [keyword |-> nk, chat_id |-> files[i].chat_id,
                  message_id |-> files[i].message_id]]

\* what the one read of the trigger settles: the keywords and their payloads
ReadReplay ==
    ReplayFrom(km.all_filters, km.matched_keywords,
               Len(KeywordsToSend(km.matched_keywords)))

\* C29: the keywords that fire and the payloads replayed for a message are
\* those of the filter set as it was read once at the start of the trigger,
\* whatever /addfilter and /delfilter do while the trigger is paused.
C29_SingleReadPerTrigger ==
    km.pc \in {"replay", "done"} =>
        /\ km.matched_keywords = MatchedKeywords(km.all_filters, lower(km.message.text))
        /\ IsPrefix(km.sent, ReadReplay)
        /\ km.pc = "done" => km.sent = ReadReplay

\* the stored search_count of the sender
SearchCountOf(S) == get(get_user_info(S, Sender), "search_count", 0)

\* the handlers whose increment_user_search has returned
Incremented == {i \in DOMAIN tasks : tasks[i].pc = "done"}

\* C30: whatever the interleaving of the add_user and increment_user_search
\* calls of concurrently handled messages, the stored search_count of a user
\* never goes down, and it counts every increment_user_search that has
\* returned.
C30_SearchCountMonotonic ==
    /\ [][SearchCountOf(STORAGE') >= SearchCountOf(STORAGE)]_vars
    /\ [](SearchCountOf(STORAGE) >= Cardinality(Incremented))

\* C31: whatever /addfilter commands have been handled, also with an empty or a
\* blank keyword, the filter store holds no entry whose canonical keyword is
\* the empty string.
C31_NoEmptyKeyword ==
    \A keyword \in FilterKeys(STORAGE) : Canon(keyword) # <<>>

\* the value of a named counter that the backend of S holds persisted
PersistedCounter(S, n) ==
    IF S.use_mongo
    THEN get(IF "global" \in DOMAIN S.db.stats THEN S.db.stats["global"] ELSE NoDoc, n, 0)
    ELSE get(S.files.stats, n, 0)

\* C33: after every process start, on either backend, the bot_started that the
\* uptime is computed from is the time of this start, and total_searches and
\* total_broadcasts have the values that the backend holds persisted.
C33_StartTimeOfThisProcess ==
    [][(last'.name = "__init__" /\ now' = now) =>
          /\ get_stats(STORAGE').bot_started = now
          /\ \A n \in {"total_searches", "total_broadcasts"} :
                Counter(STORAGE', n) = PersistedCounter(STORAGE', n)]_vars

\* the files hold the whole in-memory state of S
Persisted(S) ==
    /\ S.files.exists
    /\ S.files.filters = S.local_filters
    /\ S.files.users = S.local_users
    /\ S.files.groups = S.local_groups
    /\ S.files.stats = S.local_stats

C34_WholeTokenFires ==
    km.pc \in {"replay", "done"} =>
        \A keyword \in FilterKeys(STORAGE) \ {<<>>} :
            LET text == lower(km.message.text)
            IN  ((\A j \in DOMAIN keyword : keyword[j] # " ") /\
                 (\E i \in 1..Len(text) :
                     OccursAt(keyword, text, i) /\ BetweenBlanks(keyword, text, i)))
                => Fired(keyword)

\* the broadcast has taken its snapshot, so it has counters
Counting(b) == "index" \in DOMAIN b

\* C35: in every state of a broadcast run removed is at most failed, success
\* plus failed is at most the number of targets processed so far, which is at
\* most the size of the snapshot, and no step of the run lowers a counter.
C35_BroadcastCounters ==
    /\ [](Counting(bc) =>
             /\ bc.removed_count <= bc.failed_count
             /\ bc.success_count + bc.failed_count <= bc.index
             /\ bc.index <= Len(bc.user_ids_str)
             /\ bc.index = Len(bc.attempts))
    /\ [][(Counting(bc) /\ Counting(bc')) =>
             /\ bc'.success_count >= bc.success_count
             /\ bc'.failed_count >= bc.failed_count
             /\ bc'.removed_count >= bc.removed_count
             /\ bc'.index >= bc.index]_vars

\* C35: a run over three targets has processed two: the first was unreachable
\* and the second answered with the rate limit, which is in no counter.
C35_Witness ==
    /\ bc.pc = "running"
    /\ Len(bc.user_ids_str) = 3
    /\ bc.index = 2
    /\ bc.success_count = 0
    /\ bc.failed_count = 1
    /\ bc.removed_count = 1

====
